---- MODULE Spec2Model ----
(***************************************************************************)
(* A model of the BLE key protocol engine (BluetoothKeySDK.ts and the      *)
(* protocol layers it uses).  The session manager is modelled as a state   *)
(* machine over the per-device maps of the class; every asynchronous       *)
(* method is cut at its await points.  JavaScript runs one macrotask at a  *)
(* time and drains the microtask queue before the next one: the            *)
(* continuations that follow a crypto await (buildCompletePacket) are kept *)
(* in microQ, and timers, transport completions and notifications fire     *)
(* only while microQ is empty.                                             *)
(***************************************************************************)
EXTENDS Integers, Sequences, FiniteSets, TLC

VARIABLES
    link,                    \* transport: is the BLE link to the device up
    cbPending,               \* transport: a disconnect callback is owed
    connections,             \* this.connections
    frameIndexes,            \* this.frameIndexes
    dynamicKeys,             \* this.dynamicKeys
    dataBuffers,             \* this.dataBuffers
    receivingTimeoutTimers,  \* this.receivingTimeoutTimers
    pendingFrameResponses,   \* this.pendingFrameResponses
    authPromises,            \* this.authPromises
    authTimers,              \* armed timers created by _autoAuthenticate
    authStatusMap,           \* this._authStatusMap
    disconnectingDevices,    \* this.disconnectingDevices
    calls,                   \* the sendCommand invocations
    connCall,                \* the connectToDevice invocation of each device
    discCall,                \* the caller's disconnectDevice invocation
    inflight,                \* auth-step handlers awaiting their reply write
    microQ,                  \* pending microtask continuations, in order
    written,                 \* packets handed to BleClient.write in this step
    emitted,                 \* events emitted in this step
    returned,                \* sendCommand calls that returned in this step
    authProg,                \* history: handshake steps seen in order
    expired,                 \* history: the waiters of the session that timed out
    wire,                    \* transport: notification bytes not yet delivered
    arrived,                 \* history: the notification bytes delivered so far
    dispatched,              \* history: the frames given to _processPhysicalFrame
    flushed,                 \* history: has the idle timer forced a flush
    packed,                  \* the last PhysicalLayer.pack call: payload and frame
    codec,                   \* a call of a codec function: its name, input, result
    frameQ,                  \* _processPhysicalFrame calls awaiting their continuation
    handled                  \* history: the last frame handled, and what became of it

vars == << link, cbPending, connections, frameIndexes, dynamicKeys, dataBuffers,
           receivingTimeoutTimers, pendingFrameResponses, authPromises,
           authTimers, authStatusMap, disconnectingDevices, calls, connCall,
           discCall, inflight, microQ, written, emitted, returned, authProg,
           expired, wire, arrived, dispatched, flushed, packed, codec,
           frameQ, handled >>

\* the byte level of the receive path and of the framing codec
keptVars == << wire, arrived, dispatched, flushed, packed, codec >>

\* the same, with the frames whose handling is under way
phyVars == << wire, arrived, dispatched, flushed, packed, codec, frameQ,
             handled >>

----------------------------------------------------------------------------
(* Bounds of the model *)

Devices == {"A", "B"}

\* connectToDevice attempts per device
MaxAttempts == 2

\* caller-side sendCommand invocations that may be open at once per device
MaxUserCalls == 2

\* the caller issues overlapping commands only up to this frame index
MaxIdx == 2

----------------------------------------------------------------------------
(* Program constants *)

FrameIndexModulus == 256

XorMask == 90

MaxCleanupRetries == 3

Absent == -1

\* TransportAckType
REQUEST_WITHOUT_ACK == "requsetWithoutAck"
REQUEST_WITH_ACK == "requsetWithAck"
ACK == "ack"
NONE == "none"

AckTypes == {REQUEST_WITHOUT_ACK, REQUEST_WITH_ACK, ACK, NONE}

\* the default secretKey of the configuration: 'MK+JorgenR25004!'
SecretKey == << 77, 75, 43, 74, 111, 114, 103, 101, 110, 82, 50, 53, 48, 48, 52, 33 >>

----------------------------------------------------------------------------
(* Bytes *)

RECURSIVE BitXor(_, _)
BitXor(a, b) ==
    IF a = 0 /\ b = 0 THEN 0
    ELSE (((a % 2) + (b % 2)) % 2) + (2 * BitXor(a \div 2, b \div 2))

\* a faulty variant of XorBytes, against which C31 is tested: the bytes are
\* echoed
XorBytesEchoed(s) == s

XorBytes(s) == [i \in 1..Len(s) |-> BitXor(s[i], XorMask)]

\* a faulty variant of checkXorValidation, against which C25 is tested: the
\* command bytes are not compared
checkXorBodyOnly(requestData, responseData) ==
    /\ Len(requestData) # 0
    /\ Len(responseData) # 0
    /\ Len(Tail(responseData)) = Len(Tail(requestData))
    /\ \A i \in 1..Len(Tail(requestData)) :
          Tail(responseData)[i] = BitXor(Tail(requestData)[i], XorMask)

\* checkXorValidation(requestData, responseData)
checkXorValidation(requestData, responseData) ==
    /\ Len(requestData) # 0
    /\ Len(responseData) # 0
    /\ responseData[1] = requestData[1]
    /\ Len(Tail(responseData)) = Len(Tail(requestData))
    /\ \A i \in 1..Len(Tail(requestData)) :
          Tail(responseData)[i] = BitXor(Tail(requestData)[i], XorMask)

\* a faulty variant of the key normalisation, against which C24 is tested: a
\* long key is used as it is
NormalizeKeyNoCut(secretKey) ==
    IF Len(secretKey) >= 16 THEN secretKey
    ELSE [i \in 1..16 |-> IF i <= Len(secretKey) THEN secretKey[i] ELSE 0]

\* AesEcbCryptoFactory: the 16-byte key actually used
NormalizeKey(secretKey) ==
    IF Len(secretKey) = 16 THEN secretKey
    ELSE IF Len(secretKey) < 16
         THEN [i \in 1..16 |-> IF i <= Len(secretKey) THEN secretKey[i] ELSE 0]
         ELSE SubSeq(secretKey, 1, 16)

----------------------------------------------------------------------------
(* Commands and the device's messages *)

Nonces == { << 90, 0, 255, 7 >> }

\* CommandUtils.buildConnectCommand: 0x01 + 4 bytes of Date.now()
buildConnectCommand(nonce) == [command |-> "CONNECT", data |-> << 1 >> \o nonce]

\* CommandUtils.buildTimeSyncCommand: 0x05 + 6 BCD bytes
buildTimeSyncCommand == [command |-> "TIME_SYNC", data |-> << 5, 37, 1, 2, 3, 4, 5 >>]

\* CommandUtils.buildReadDeviceInfoCommand
buildReadDeviceInfoCommand == [command |-> "READ_DEVICE_INFO", data |-> << 6 >>]

\* what the caller sends: a command and the ackType of transportOptions
UserCommands ==
    { [cmd |-> buildTimeSyncCommand, ackType |-> a] : a \in AckTypes }
    \cup { [cmd |-> buildReadDeviceInfoCommand, ackType |-> a] :
              a \in {REQUEST_WITH_ACK, REQUEST_WITHOUT_ACK} }

\* command.command.includes('READ') || command.command.includes('GET')
IsReadClass(command) == command \in {"READ_DEVICE_INFO"}

\* CommandUtils.validateBusinessResponse
validateBusinessResponse(command, response) ==
    /\ Len(response) # 0
    /\ response[1] = command
    /\ CASE command = 1 -> Len(response) = 5
         [] command = 5 -> Len(response) = 2 /\ response[2] = 1
         [] command = 6 -> Len(response) = 8 /\ response[2] = 1
         [] command \in {2, 3, 4} -> Len(response) >= 2
         [] OTHER -> TRUE

\* key fragments the device may send in steps 0x03 and 0x04
KeyFrags == { << 17 >>, << 34 >> }

\* frame indexes the device uses for the requests it starts
DevFrameIdx == {7}

\* a key the session never holds
WrongKey == << 255 >>

\* the answers a device may give to a request
Replies(req) ==
    CASE req[1] = 1 ->
            { << 1 >> \o XorBytes(Tail(req)),
              << 1 >> \o Tail(req),
              << 1 >> \o XorBytes(SubSeq(req, 2, 4)) }
      [] req[1] = 5 -> { << 5, 1 >>, << 5, 0 >> }
      [] req[1] = 6 -> { << 6, 1, 5, 2, 1, 0, 0, 0 >>, << 5, 1 >> }
      [] OTHER -> { }

----------------------------------------------------------------------------
(* The state *)

NoConnection == [isConnected |-> FALSE, status |-> "absent"]

NoKey == [has |-> FALSE, v |-> << >>]

NoBuffer == [has |-> FALSE, v |-> << >>]

NoMap == [has |-> FALSE, map |-> { }]

UserCalls(d) == { << "u", d, i >> : i \in 1..MaxUserCalls }

EngineCalls(d) == { << "e", d, n >> : n \in 1..MaxAttempts }

CallIds == UNION { UserCalls(d) \cup EngineCalls(d) : d \in Devices }

FreeCall == [pc |-> "free", command |-> "", req |-> << >>, ackType |-> NONE,
             fi |-> 0, attached |-> FALSE]

\* a connectToDevice call; events counts the 'disconnected' events emitted
\* since the call began (an observation: no guard reads it)
IdleConnect ==
    [pc |-> "idle", attempt |-> 0, retry |-> 0, err |-> "none", events |-> 0]

\* the call record after one more 'disconnected' event
Reported(r) == [r EXCEPT !.events = IF @ = 0 THEN 1 ELSE 2]

\* no frame has been handled
NoFrame == [kind |-> "none", frameIndex |-> 0, out |-> "none"]

InitSession ==
    /\ link = [d \in Devices |-> "down"]
    /\ cbPending = [d \in Devices |-> FALSE]
    /\ connections = [d \in Devices |-> NoConnection]
    /\ frameIndexes = [d \in Devices |-> Absent]
    /\ dynamicKeys = [d \in Devices |-> NoKey]
    /\ dataBuffers = [d \in Devices |-> NoBuffer]
    /\ receivingTimeoutTimers = [d \in Devices |-> "absent"]
    /\ pendingFrameResponses = [d \in Devices |-> NoMap]
    /\ authPromises = [d \in Devices |-> 0]
    /\ authTimers = [d \in Devices |-> { }]
    /\ authStatusMap = [d \in Devices |-> "undefined"]
    /\ disconnectingDevices = { }
    /\ calls = [c \in CallIds |-> FreeCall]
    /\ connCall = [d \in Devices |-> IdleConnect]
    /\ discCall = [d \in Devices |-> "idle"]
    /\ inflight = [d \in Devices |-> 0]
    /\ microQ = << >>
    /\ written = << >>
    /\ emitted = << >>
    /\ returned = { }
    /\ authProg = [d \in Devices |-> 0]
    /\ expired = [d \in Devices |-> { }]
    /\ arrived = << >>
    /\ dispatched = << >>
    /\ flushed = FALSE
    /\ frameQ = [d \in Devices |-> << >>]
    /\ handled = [d \in Devices |-> NoFrame]

\* nothing has been packed
NoPack == [payload |-> << >>, frame |-> << >>]

\* no codec function is being called
NoCall == [fn |-> "none", in |-> << >>, out |-> << >>, done |-> FALSE]

\* the state after construction; no notification is under way
Init ==
    /\ InitSession
    /\ wire = << >>
    /\ packed = NoPack
    /\ codec = NoCall

\* isDeviceConnected(deviceId)
isDeviceConnected(d) ==
    IF connections[d].status = "absent" THEN FALSE ELSE connections[d].isConnected

\* the calls whose waiter is registered in the device's current map
InMap(d) == { e[2] : e \in pendingFrameResponses[d].map }

\* a waiter: a call suspended in waitForFrameResponse, its timer armed
IsWaiting(c) == calls[c].pc = "waiting"

\* a finished sendCommand call: what it returned
DoneCall(c, res, data) == [call |-> c, res |-> res, data |-> data]

\* a faulty variant of that outcome, against which C14 is tested: a response
\* that fails the validation is reported without its bytes
ResolvedCallNoBytes(c, data) ==
    IF validateBusinessResponse(calls[c].req[1], data)
    THEN DoneCall(c, "ok", data) ELSE DoneCall(c, "invalid", << >>)

\* the outcome of a sendCommand call whose waiter was resolved with data:
\* success with the data, or the structured failure ("invalid") with the
\* error text and the data when the business validation fails
ResolvedCall(c, data) ==
    DoneCall(c, IF validateBusinessResponse(calls[c].req[1], data)
                THEN "ok" ELSE "invalid", data)

\* the outcome of a sendCommand call that ended in its catch block
FailedCall(c, why) == DoneCall(c, why, << >>)

\* _startFirstAuth throws for this outcome of its sendCommand
FirstAuthThrows(c, after) ==
    \/ after.res # "ok"
    \/ Len(after.data) = 0
    \/ ~checkXorValidation(calls[c].req, after.data)

\* the attempts of device d whose _startFirstAuth throws when the calls of S
\* end as given by after
ThrowingAttempts(d, S, after) ==
    { c[3] : c \in { x \in S \cap EngineCalls(d) : FirstAuthThrows(x, after[x]) } }

\* the attempts whose _startFirstAuth returns normally
PassingAttempts(d, S, after) ==
    { c[3] : c \in { x \in S \cap EngineCalls(d) : ~FirstAuthThrows(x, after[x]) } }

\* the promise of _autoAuthenticate is rejected for an attempt of T: the
\* connectToDevice call awaiting it goes to its catch block (_cleanupConnection)
ConnectAfterReject(d, T, why) ==
    IF connCall[d].pc = "authing" /\ connCall[d].attempt \in T
    THEN [connCall[d] EXCEPT !.pc = "cleanupSleep", !.retry = 0, !.err = why]
    ELSE connCall[d]

\* history: the handshake steps handled so far, in the expected order
Advance(p, step) == IF p = step - 1 THEN step ELSE -1

\* what the calls of S return
Returned(S, after) == { after[c] : c \in S }

\* the calls of S end; the waiters of D lose their map
CallsAfter(S, after, D) ==
    [c \in CallIds |->
        IF c \in S THEN FreeCall
        ELSE IF c \in D THEN [calls[c] EXCEPT !.attached = FALSE]
        ELSE calls[c]]

\* every call of device d
CallsOf(d) == UserCalls(d) \cup EngineCalls(d)

\* no microtask is pending: the event loop may run the next macrotask
Quiet == microQ = << >>

----------------------------------------------------------------------------
(* The catch block of _autoAuthenticate, run for the attempts of T *)

AuthPromisesAfterThrow(d, T) ==
    IF T # { } THEN [authPromises EXCEPT ![d] = 0] ELSE authPromises

AuthStatusAfterThrow(d, T) ==
    IF T # { } THEN [authStatusMap EXCEPT ![d] = "false"] ELSE authStatusMap

AuthProgAfter(d, P) ==
    IF P # { } THEN [authProg EXCEPT ![d] = Advance(@, 1)] ELSE authProg

----------------------------------------------------------------------------
(* connectToDevice *)

\* the call, up to await BleClient.connect
ConnectCall(d) ==
    /\ connCall[d].pc \in {"idle", "resolved", "rejected"}
    /\ connCall[d].attempt < MaxAttempts
    /\ ~isDeviceConnected(d)
    /\ connCall' = [connCall EXCEPT ![d] =
            [pc |-> "connecting", attempt |-> @.attempt + 1, retry |-> 0,
             err |-> "none", events |-> 0]]
    /\ returned' = { }
    /\ written' = << >>
    /\ emitted' = << >>
    /\ UNCHANGED << link, cbPending, connections, frameIndexes, dynamicKeys,
                    dataBuffers, receivingTimeoutTimers, pendingFrameResponses,
                    authPromises, authTimers, authStatusMap, disconnectingDevices,
                    calls, discCall, inflight, microQ, authProg, expired, phyVars >>

\* BleClient.connect settles; on success the connection is recorded and
\* getServices is awaited
ConnectDone(d, ok) ==
    /\ Quiet
    /\ connCall[d].pc = "connecting"
    /\ ok => ~cbPending[d]
    /\ IF ok
       THEN /\ link' = [link EXCEPT ![d] = "up"]
            /\ cbPending' = cbPending
            /\ connections' = [connections EXCEPT ![d] =
                    [isConnected |-> TRUE, status |-> "connecting"]]
            /\ connCall' = [connCall EXCEPT ![d].pc = "discover"]
       ELSE /\ connCall' = [connCall EXCEPT ![d].pc = "cleanupSleep", ![d].err = "connect"]
            /\ UNCHANGED << link, cbPending, connections >>
    /\ returned' = { }
    /\ written' = << >>
    /\ emitted' = << >>
    /\ UNCHANGED << frameIndexes, dynamicKeys, dataBuffers, receivingTimeoutTimers,
                    pendingFrameResponses, authPromises, authTimers, authStatusMap,
                    disconnectingDevices, calls, discCall, inflight, microQ, authProg, expired, phyVars >>

\* getServices settles: service and characteristics found, or not
DiscoverDone(d, ok) ==
    /\ Quiet
    /\ connCall[d].pc = "discover"
    /\ ok => link[d] = "up"
    /\ connCall' = [connCall EXCEPT ![d].pc = IF ok THEN "subscribing" ELSE "cleanupSleep",
                                    ![d].err = IF ok THEN "none" ELSE "service"]
    /\ returned' = { }
    /\ written' = << >>
    /\ emitted' = << >>
    /\ UNCHANGED << link, cbPending, connections, frameIndexes, dynamicKeys,
                    dataBuffers, receivingTimeoutTimers, pendingFrameResponses,
                    authPromises, authTimers, authStatusMap, disconnectingDevices,
                    calls, discCall, inflight, microQ, authProg, expired, phyVars >>

\* startNotifications fails
SubscribeFail(d) ==
    /\ Quiet
    /\ connCall[d].pc = "subscribing"
    /\ connCall' = [connCall EXCEPT ![d].pc = "cleanupSleep", ![d].err = "notify"]
    /\ returned' = { }
    /\ written' = << >>
    /\ emitted' = << >>
    /\ UNCHANGED << link, cbPending, connections, frameIndexes, dynamicKeys,
                    dataBuffers, receivingTimeoutTimers, pendingFrameResponses,
                    authPromises, authTimers, authStatusMap, disconnectingDevices,
                    calls, discCall, inflight, microQ, authProg, expired, phyVars >>

\* startNotifications succeeds: the per-device state is initialised, 'connected'
\* is emitted, _autoAuthenticate arms its timer and stores its promise, and
\* _startFirstAuth calls sendCommand(CONNECT), which runs up to its first await
SessionInit(d, nonce) ==
    LET n == connCall[d].attempt
        c == << "e", d, n >>
        conn == IF connections[d].status = "absent" THEN NoConnection
                ELSE [connections[d] EXCEPT !.status = "connected"]
        sendable == conn.status # "absent" /\ conn.isConnected
        cmd == buildConnectCommand(nonce)
    IN
    /\ Quiet
    /\ connCall[d].pc = "subscribing"
    /\ link[d] = "up"
    /\ link' = [link EXCEPT ![d] = "notifying"]
    /\ frameIndexes' = [frameIndexes EXCEPT ![d] = 0]
    /\ dynamicKeys' = [dynamicKeys EXCEPT ![d] = [has |-> TRUE, v |-> SecretKey]]
    /\ dataBuffers' = [dataBuffers EXCEPT ![d] = [has |-> TRUE, v |-> << >>]]
    /\ pendingFrameResponses' = [pendingFrameResponses EXCEPT ![d] =
            [has |-> TRUE, map |-> { }]]
    /\ connections' = [connections EXCEPT ![d] = conn]
    /\ emitted' = << [type |-> "connected", deviceId |-> d] >>
    /\ authTimers' = [authTimers EXCEPT ![d] = @ \cup {n}]
    /\ authProg' = [authProg EXCEPT ![d] = 0]
    /\ IF sendable
       THEN /\ authPromises' = [authPromises EXCEPT ![d] = n]
            /\ authStatusMap' = [authStatusMap EXCEPT ![d] = "undefined"]
            /\ calls' = [x \in CallIds |->
                    IF x = c
                    THEN [pc |-> "build", command |-> cmd.command, req |-> cmd.data,
                          ackType |-> REQUEST_WITH_ACK, fi |-> 0, attached |-> FALSE]
                    ELSE IF x \in CallsOf(d) THEN [calls[x] EXCEPT !.attached = FALSE]
                    ELSE calls[x]]
            /\ microQ' = Append(microQ, c)
            /\ connCall' = [connCall EXCEPT ![d].pc = "authing"]
       ELSE /\ authPromises' = [authPromises EXCEPT ![d] = 0]
            /\ authStatusMap' = [authStatusMap EXCEPT ![d] = "false"]
            /\ calls' = CallsAfter({ }, calls, CallsOf(d))
            /\ microQ' = microQ
            /\ connCall' = [connCall EXCEPT ![d].pc = "cleanupSleep",
                                            ![d].err = "firstAuth"]
    /\ returned' = { }
    /\ written' = << >>
    /\ UNCHANGED << cbPending, receivingTimeoutTimers, disconnectingDevices,
                    discCall, inflight >>
    /\ expired' = [expired EXCEPT ![d] = { }]
    /\ UNCHANGED phyVars

----------------------------------------------------------------------------
(* sendCommand *)

\* buildCompletePacket: (frameIndex + 1) % 256
NextFrameIndex(frameIndex) == (frameIndex + 1) % FrameIndexModulus

\* a faulty variant of the choice below, against which C34 is tested: every
\* REQUEST_WITHOUT_ACK command waits, read-class or not
AwaitsEveryRequest(ackType, command) ==
    ackType \in {REQUEST_WITH_ACK, REQUEST_WITHOUT_ACK}

\* sendCommand's switch on ackType: does the call await a frame response
AwaitsResponse(ackType, command) ==
    \/ ackType = REQUEST_WITH_ACK
    \/ ackType = REQUEST_WITHOUT_ACK /\ IsReadClass(command)

\* waitForFrameResponse: the device's map after call c registered at frameIndex
waitForFrameResponse(d, frameIndex, c) ==
    [has |-> TRUE,
     map |-> { e \in pendingFrameResponses[d].map : e[1] # frameIndex }
                \cup { << frameIndex, c >> }]

\* the call registered for frameIndex in the device's current map, if any
WaiterAt(d, frameIndex) ==
    { e[2] : e \in { x \in pendingFrameResponses[d].map : x[1] = frameIndex } }

\* deviceFrameResponses.delete(frameIndex)
WithoutIndex(d, frameIndex) ==
    [pendingFrameResponses[d] EXCEPT
        !.map = { e \in @ : e[1] # frameIndex }]

\* a packet handed to BleClient.write
Packet(d, ackType, frameIndex, data) ==
    [deviceId |-> d, ackType |-> ackType, frameIndex |-> frameIndex,
     data |-> data, key |-> dynamicKeys'[d].v]

\* the caller invokes sendCommand: the connection check, the read of the
\* current frame index, and buildCompletePacket up to its first await
UserSend(d, i, uc) ==
    LET c == << "u", d, i >> IN
    /\ calls[c].pc = "free"
    /\ \A j \in 1..(i - 1) : calls[<< "u", d, j >>].pc # "free"
    /\ isDeviceConnected(d)
    /\ calls' = [calls EXCEPT ![c] =
            [pc |-> "build", command |-> uc.cmd.command, req |-> uc.cmd.data,
             ackType |-> uc.ackType,
             fi |-> IF frameIndexes[d] = Absent THEN 0 ELSE frameIndexes[d],
             attached |-> FALSE]]
    /\ microQ' = Append(microQ, c)
    /\ returned' = { }
    /\ written' = << >>
    /\ emitted' = << >>
    /\ UNCHANGED << link, cbPending, connections, frameIndexes, dynamicKeys,
                    dataBuffers, receivingTimeoutTimers, pendingFrameResponses,
                    authPromises, authTimers, authStatusMap, disconnectingDevices,
                    connCall, discCall, inflight, authProg, expired, phyVars >>

\* buildCompletePacket resumes: the frame index is advanced for a
\* REQUEST_WITH_ACK packet, and sendCommand hands the packet to BleClient.write
BuildDone ==
    /\ microQ # << >>
    /\ LET c == Head(microQ)
           d == c[2]
       IN
       /\ frameIndexes' =
             IF calls[c].ackType = REQUEST_WITH_ACK
             THEN [frameIndexes EXCEPT ![d] = NextFrameIndex(calls[c].fi)]
             ELSE frameIndexes
       /\ calls' = [calls EXCEPT ![c].pc = "writing"]
       /\ dynamicKeys' = dynamicKeys
       /\ returned' = { }
       /\ written' = << Packet(d, calls[c].ackType, calls[c].fi, calls[c].req) >>
    /\ microQ' = Tail(microQ)
    /\ emitted' = << >>
    /\ UNCHANGED << link, cbPending, connections, dataBuffers,
                    receivingTimeoutTimers, pendingFrameResponses, authPromises,
                    authTimers, authStatusMap, disconnectingDevices, connCall,
                    discCall, inflight, authProg, expired, phyVars >>

\* BleClient.write of a command settles; on success the call registers its
\* waiter or returns, by ackType
WriteDone(c, ok) ==
    LET d == c[2]
        after == [x \in {c} |-> FailedCall(c, "writeFail")]
        T == IF ok THEN { } ELSE ThrowingAttempts(d, {c}, after)
    IN
    /\ Quiet
    /\ calls[c].pc = "writing"
    /\ ok => link[d] # "down"
    /\ IF ok /\ AwaitsResponse(calls[c].ackType, calls[c].command)
       THEN /\ pendingFrameResponses' = [pendingFrameResponses EXCEPT ![d] =
                    waitForFrameResponse(d, calls[c].fi, c)]
            /\ calls' = [calls EXCEPT ![c].pc = "waiting", ![c].attached = TRUE]
            /\ returned' = { }
       ELSE /\ pendingFrameResponses' = pendingFrameResponses
            /\ calls' = [calls EXCEPT ![c] = FreeCall]
            /\ returned' = { IF ok THEN DoneCall(c, "ok", << >>) ELSE after[c] }
    /\ authPromises' = AuthPromisesAfterThrow(d, T)
    /\ authStatusMap' = AuthStatusAfterThrow(d, T)
    /\ connCall' = [connCall EXCEPT ![d] = ConnectAfterReject(d, T, "firstAuth")]
    /\ written' = << >>
    /\ emitted' = << >>
    /\ UNCHANGED << link, cbPending, connections, frameIndexes, dynamicKeys,
                    dataBuffers, receivingTimeoutTimers, authTimers,
                    disconnectingDevices, discCall, inflight, microQ, authProg, expired, phyVars >>

\* the timer of waitForFrameResponse fires (lateAnswer: the peer's answer to
\* the request is still under way): the entry of the frame index is
\* deleted from the map the waiter registered in, and the waiter is rejected
CmdTimeout(c, lateAnswer) ==
    LET d == c[2]
        after == [x \in {c} |-> FailedCall(c, "timeout")]
        T == ThrowingAttempts(d, {c}, after)
    IN
    /\ Quiet
    /\ calls[c].pc = "waiting"
    /\ pendingFrameResponses' =
          IF calls[c].attached
          THEN [pendingFrameResponses EXCEPT ![d] = WithoutIndex(d, calls[c].fi)]
          ELSE pendingFrameResponses
    /\ calls' = [calls EXCEPT ![c] = FreeCall]
    /\ returned' = { after[c] }
    /\ authPromises' = AuthPromisesAfterThrow(d, T)
    /\ authStatusMap' = AuthStatusAfterThrow(d, T)
    /\ connCall' = [connCall EXCEPT ![d] = ConnectAfterReject(d, T, "firstAuth")]
    /\ written' = << >>
    /\ emitted' = << >>
    /\ UNCHANGED << link, cbPending, connections, frameIndexes, dynamicKeys,
                    dataBuffers, receivingTimeoutTimers, authTimers,
                    disconnectingDevices, discCall, inflight, microQ, authProg >>
    /\ expired' = IF lateAnswer
                  THEN [expired EXCEPT ![d] = @ \cup { << calls[c].fi, calls[c].req >> }]
                  ELSE expired
    /\ UNCHANGED phyVars

----------------------------------------------------------------------------
(* The receive path: handleReceivedData, _processPhysicalFrame,
   handleApplicationData *)

\* isDeviceReport(data)
isDeviceReport(data) == Len(data) # 0 /\ data[1] \in {6, 7}

\* a faulty variant of the reply data, against which C11 is tested: the
\* time-sync reply for every report
ActiveReplyTimeSync(data) == << 5, 1 >>

\* handleDeviceActiveCommand: the reply data for a report
ActiveReply(data) ==
    CASE data[1] = 7 -> << 7, 1 >>
      [] data[1] = 6 -> << 5, 1 >>
      [] OTHER -> << data[1], 1 >>

\* CommandUtils.parseDeviceStatusReport returns (it throws otherwise): a
\* status report has 7 bytes, a device-information report 8
ParsesAsReport(data) ==
    \/ data[1] = 7 /\ Len(data) = 7
    \/ data[1] = 6 /\ Len(data) = 8

\* handleDeviceReport: the events emitted for a report
ReportEvents(d, data) ==
    IF ParsesAsReport(data)
    THEN << [type |-> "deviceReport", deviceId |-> d],
            [type |-> "lockStatusReport", deviceId |-> d],
            [type |-> "deviceInfoReport", deviceId |-> d] >>
    ELSE << [type |-> "error", deviceId |-> d] >>

\* the frame decrypts under the device's current key
Decodes(d, m) == NormalizeKey(m.key) = NormalizeKey(dynamicKeys[d].v)

\* the frames the peer may send in the current state: answers to the commands
\* written so far, an answer nobody waits for, the three handshake requests,
\* a status report (well-formed, and truncated), and frames of the two ack
\* types that are only logged, and late answers to requests whose waiter has
\* timed out
InboundFrames(d) ==
    LET open == { c \in CallsOf(d) : calls[c].pc \in {"writing", "waiting"} }
        answers == UNION { { [ackType |-> a, frameIndex |-> calls[c].fi, data |-> r]
                                : a \in {ACK, REQUEST_WITH_ACK}, r \in Replies(calls[c].req) }
                            : c \in open }
        stray == { [ackType |-> ACK, frameIndex |-> 99, data |-> << 5, 1 >>] }
        auth == { [ackType |-> REQUEST_WITH_ACK, frameIndex |-> f, data |-> x]
                    : f \in DevFrameIdx,
                      x \in { << 2, 17, 34 >> } \cup { << op >> \o k : op \in {3, 4}, k \in KeyFrags } }
        report == { [ackType |-> REQUEST_WITH_ACK, frameIndex |-> 9, data |-> x]
                      : x \in { << 7, 5, 2, 1, 0, 0, 0 >>, << 7, 1, 0 >> } }
        logged == { [ackType |-> a, frameIndex |-> 0, data |-> << 5, 1 >>]
                    : a \in {REQUEST_WITHOUT_ACK, NONE} }
        late == UNION { { [ackType |-> ACK, frameIndex |-> x[1], data |-> r]
                            : r \in Replies(x[2]) } : x \in expired[d] }
    IN { [ackType |-> m.ackType, frameIndex |-> m.frameIndex, data |-> m.data,
          key |-> dynamicKeys[d].v]
            : m \in answers \cup stray \cup auth \cup report \cup logged \cup late }
       \cup { [ackType |-> m.ackType, frameIndex |-> m.frameIndex, data |-> m.data,
                key |-> WrongKey] : m \in stray }

\* handleReceivedData: the frame is consumed from the buffer and the idle
\* timer is re-armed
Buffered(d) ==
    /\ dataBuffers' = [dataBuffers EXCEPT ![d] = [has |-> TRUE, v |-> << >>]]
    /\ receivingTimeoutTimers' = [receivingTimeoutTimers EXCEPT ![d] = "armed"]

\* a faulty variant of resolveFrameResponse, against which C10 is tested: it
\* resolves every waiter of the device, whatever its frame index
resolveEveryFrameResponse(d, frameIndex, data) ==
    LET S == InMap(d)
        after == [c \in S |-> ResolvedCall(c, data)]
        T == ThrowingAttempts(d, S, after)
        P == PassingAttempts(d, S, after)
    IN
    /\ pendingFrameResponses' =
          [pendingFrameResponses EXCEPT ![d] = [@ EXCEPT !.map = { }]]
    /\ calls' = CallsAfter(S, after, { })
    /\ returned' = Returned(S, after)
    /\ authPromises' = AuthPromisesAfterThrow(d, T)
    /\ authStatusMap' = AuthStatusAfterThrow(d, T)
    /\ connCall' = [connCall EXCEPT ![d] = ConnectAfterReject(d, T, "badAck")]
    /\ authProg' = AuthProgAfter(d, P)

\* the calls of d whose request is being written and is answered by this
\* frame: sendCommand has not yet reached waitForFrameResponse for them
Unregistered(d, frameIndex, data) ==
    { c \in CallsOf(d) :
        /\ calls[c].pc = "writing"
        /\ calls[c].fi = frameIndex
        /\ AwaitsResponse(calls[c].ackType, calls[c].command)
        /\ data \in Replies(calls[c].req) }

\* resolveFrameResponse(d, frameIndex, data), with the continuation of the
\* resolved sendCommand call and, for the CONNECT call, of _startFirstAuth;
\* without a waiter at the index the frame has no effect
resolveFrameResponse(d, frameIndex, data) ==
    LET S == IF pendingFrameResponses[d].has THEN WaiterAt(d, frameIndex) ELSE { }
        after == [c \in S |-> ResolvedCall(c, data)]
        T == ThrowingAttempts(d, S, after)
        P == PassingAttempts(d, S, after)
    IN
    /\ pendingFrameResponses' =
          IF S = { } THEN pendingFrameResponses
          ELSE [pendingFrameResponses EXCEPT ![d] = WithoutIndex(d, frameIndex)]
    /\ calls' = CallsAfter(S, after, { })
    /\ returned' = Returned(S, after)
    /\ authPromises' = AuthPromisesAfterThrow(d, T)
    /\ authStatusMap' = AuthStatusAfterThrow(d, T)
    /\ connCall' = [connCall EXCEPT ![d] = ConnectAfterReject(d, T, "badAck")]
    /\ authProg' = AuthProgAfter(d, P)

\* handleApplicationData for a frame whose ack type is only logged, and
\* _processPhysicalFrame for a frame that does not decode
HandleIgnored(d) ==
    /\ Buffered(d)
    /\ returned' = { }
    /\ written' = << >>
    /\ emitted' = << >>
    /\ UNCHANGED << link, cbPending, connections, frameIndexes, dynamicKeys,
                    pendingFrameResponses, authPromises, authTimers, authStatusMap,
                    disconnectingDevices, calls, connCall, discCall, inflight,
                    microQ, authProg, expired >>

\* a frame that fails to decode, or whose ack type is only logged
ReceiveIgnored(d, m) ==
    /\ Quiet
    /\ link[d] = "notifying"
    /\ ~Decodes(d, m) \/ m.ackType \in {REQUEST_WITHOUT_ACK, NONE}
    /\ HandleIgnored(d)
    /\ UNCHANGED phyVars

\* handleApplicationData for an ACK frame: handleAckData finds nothing,
\* resolveFrameResponse runs
HandleAck(d, m) ==
    /\ m.ackType = ACK
    /\ Buffered(d)
    /\ resolveFrameResponse(d, m.frameIndex, m.data)
    /\ written' = << >>
    /\ emitted' = << >>
    /\ UNCHANGED << link, cbPending, connections, frameIndexes, dynamicKeys,
                    authTimers, disconnectingDevices, discCall, inflight, microQ,
                    expired >>

\* an ACK frame of one notification is received and handled
ReceiveAck(d, m) ==
    /\ Quiet
    /\ link[d] = "notifying"
    /\ Decodes(d, m)
    /\ HandleAck(d, m)
    /\ UNCHANGED phyVars

\* handleRequestWithAckData, report branch: the event and the automatic reply
HandleReport(d, m) ==
    /\ m.ackType = REQUEST_WITH_ACK
    /\ isDeviceReport(m.data)
    /\ Buffered(d)
    /\ dynamicKeys' = dynamicKeys
    /\ returned' = { }
    /\ written' = << Packet(d, ACK, m.frameIndex, ActiveReply(m.data)) >>
    /\ emitted' = ReportEvents(d, m.data)
    /\ UNCHANGED << link, cbPending, connections, frameIndexes,
                    pendingFrameResponses, authPromises, authTimers, authStatusMap,
                    disconnectingDevices, calls, connCall, discCall, inflight,
                    microQ, authProg, expired >>

\* a report of one notification is received and handled
ReceiveReport(d, m) ==
    /\ Quiet
    /\ link[d] = "notifying"
    /\ Decodes(d, m)
    /\ HandleReport(d, m)
    /\ UNCHANGED phyVars

\* handleRequestWithAckData, commands 0x02, 0x03, 0x04: the key is replaced
\* (0x03, 0x04) and the reply is handed to BleClient.write
HandleAuth(d, m) ==
    LET op == m.data[1] IN
    /\ m.ackType = REQUEST_WITH_ACK
    /\ ~isDeviceReport(m.data)
    /\ op \in {2, 3, 4}
    /\ inflight[d] = 0
    /\ Buffered(d)
    /\ dynamicKeys' = IF op = 2 THEN dynamicKeys
                      ELSE [dynamicKeys EXCEPT ![d] = [has |-> TRUE, v |-> Tail(m.data)]]
    /\ returned' = { }
    /\ written' = << Packet(d, ACK, m.frameIndex,
                            IF op = 2 THEN << 2 >> \o XorBytes(Tail(m.data)) ELSE m.data) >>
    /\ inflight' = [inflight EXCEPT ![d] = op]
    /\ authProg' = [authProg EXCEPT ![d] = Advance(@, op)]
    /\ emitted' = << >>
    /\ UNCHANGED << link, cbPending, connections, frameIndexes,
                    pendingFrameResponses, authPromises, authTimers, authStatusMap,
                    disconnectingDevices, calls, connCall, discCall, microQ,
                    expired >>

\* a handshake request of one notification is received and handled
ReceiveAuth(d, m) ==
    /\ Quiet
    /\ link[d] = "notifying"
    /\ Decodes(d, m)
    /\ HandleAuth(d, m)
    /\ UNCHANGED phyVars

\* handleRequestWithAckData, any other command: resolveFrameResponse
HandleRequest(d, m) ==
    /\ m.ackType = REQUEST_WITH_ACK
    /\ ~isDeviceReport(m.data)
    /\ m.data[1] \notin {2, 3, 4}
    /\ Buffered(d)
    /\ resolveFrameResponse(d, m.frameIndex, m.data)
    /\ written' = << >>
    /\ emitted' = << >>
    /\ UNCHANGED << link, cbPending, connections, frameIndexes, dynamicKeys,
                    authTimers, disconnectingDevices, discCall, inflight, microQ,
                    expired >>

\* a request of one notification is received and handled
ReceiveRequest(d, m) ==
    /\ Quiet
    /\ link[d] = "notifying"
    /\ Decodes(d, m)
    /\ HandleRequest(d, m)
    /\ UNCHANGED phyVars

----------------------------------------------------------------------------
(* Authentication: _completeAuth and the timer of _autoAuthenticate *)

\* _completeAuth(d, success)
completeAuth(d, success) ==
    LET n == authPromises[d] IN
    IF n = 0
    THEN UNCHANGED << authPromises, authTimers, authStatusMap, connCall >>
    ELSE /\ authPromises' = [authPromises EXCEPT ![d] = 0]
         /\ authTimers' = [authTimers EXCEPT ![d] = @ \ {n}]
         /\ authStatusMap' = [authStatusMap EXCEPT ![d] = IF success THEN "true" ELSE "false"]
         /\ connCall' = [connCall EXCEPT ![d] =
                IF connCall[d].pc = "authing" /\ connCall[d].attempt = n
                THEN IF success THEN [@ EXCEPT !.pc = "resolved"]
                     ELSE [@ EXCEPT !.pc = "cleanupSleep", !.retry = 0, !.err = "auth"]
                ELSE @]

\* BleClient.write of a handshake reply settles: after 0x02 and 0x03 the idle
\* timer is re-armed, after 0x04 _completeAuth(true); a failed write goes to
\* the catch block, _completeAuth(false)
InflightDone(d, ok) ==
    /\ Quiet
    /\ inflight[d] # 0
    /\ ok => link[d] # "down"
    /\ inflight' = [inflight EXCEPT ![d] = 0]
    /\ IF ok /\ inflight[d] \in {2, 3}
       THEN /\ receivingTimeoutTimers' = [receivingTimeoutTimers EXCEPT ![d] = "armed"]
            /\ UNCHANGED << authPromises, authTimers, authStatusMap, connCall >>
       ELSE /\ receivingTimeoutTimers' = receivingTimeoutTimers
            /\ completeAuth(d, ok)
    /\ returned' = { }
    /\ written' = << >>
    /\ emitted' = << >>
    /\ UNCHANGED << link, cbPending, connections, frameIndexes, dynamicKeys,
                    dataBuffers, pendingFrameResponses, disconnectingDevices,
                    calls, discCall, microQ, authProg, expired, phyVars >>

\* the oldest armed timer of _autoAuthenticate
OldestAuthTimer(d) == CHOOSE n \in authTimers[d] : \A k \in authTimers[d] : n <= k

\* a faulty variant of the timer callback, against which C5 is tested: it
\* marks the authentication failed but never rejects the promise
AuthTimeoutSilent(d) ==
    /\ Quiet
    /\ authTimers[d] # { }
    /\ authTimers' = [authTimers EXCEPT ![d] = @ \ {OldestAuthTimer(d)}]
    /\ authPromises' = [authPromises EXCEPT ![d] = 0]
    /\ authStatusMap' = [authStatusMap EXCEPT ![d] = "false"]
    /\ returned' = { }
    /\ written' = << >>
    /\ emitted' = << >>
    /\ UNCHANGED << link, cbPending, connections, frameIndexes, dynamicKeys,
                    dataBuffers, receivingTimeoutTimers, pendingFrameResponses,
                    disconnectingDevices, calls, connCall, discCall, inflight,
                    microQ, authProg, expired, phyVars >>

\* the 10 s timer of _autoAuthenticate fires
AuthTimeout(d) ==
    /\ Quiet
    /\ authTimers[d] # { }
    /\ LET n == OldestAuthTimer(d) IN
       /\ authTimers' = [authTimers EXCEPT ![d] = @ \ {n}]
       /\ connCall' = [connCall EXCEPT ![d] = ConnectAfterReject(d, {n}, "authTimeout")]
    /\ authPromises' = [authPromises EXCEPT ![d] = 0]
    /\ authStatusMap' = [authStatusMap EXCEPT ![d] = "false"]
    /\ returned' = { }
    /\ written' = << >>
    /\ emitted' = << >>
    /\ UNCHANGED << link, cbPending, connections, frameIndexes, dynamicKeys,
                    dataBuffers, receivingTimeoutTimers, pendingFrameResponses,
                    disconnectingDevices, calls, discCall, inflight, microQ, authProg, expired, phyVars >>

----------------------------------------------------------------------------
(* The physical framing codec (PhysicalLayer.ts) and the byte level of the
   receive path *)

\* the frame header A5 5A
header == << 165, 90 >>

\* the values of a byte
ByteModulus == 256

\* the sum of s[lo..hi]; the additions of the code's loops, grouped in halves
RECURSIVE SumOf(_, _, _)
SumOf(s, lo, hi) ==
    IF lo > hi THEN 0
    ELSE IF lo = hi THEN s[lo]
    ELSE LET mid == (lo + hi) \div 2
         IN  SumOf(s, lo, mid) + SumOf(s, mid + 1, hi)

\* PhysicalLayer.intToLittleEndian: the low `bytes` bytes of value
intToLittleEndian(value, bytes) ==
    [i \in 1..bytes |-> (value \div (ByteModulus ^ (i - 1))) % ByteModulus]

\* a faulty variant of pack, against which C18 is tested: the length field
\* does not count the checksum
packBareLength(data) ==
    LET lengthBytes == intToLittleEndian(Len(data), 2)
        checksum == (SumOf(header, 1, 2) + SumOf(lengthBytes, 1, 2)
                         + SumOf(data, 1, Len(data))) % ByteModulus
    IN  header \o lengthBytes \o data \o << checksum >>

\* PhysicalLayer.pack
pack(data) ==
    LET length == Len(data) + 1
        lengthBytes == intToLittleEndian(length, 2)
        checksum == (SumOf(header, 1, 2) + SumOf(lengthBytes, 1, 2)
                         + SumOf(data, 1, Len(data))) % ByteModulus
    IN  header \o lengthBytes \o data \o << checksum >>

\* unpackWithRemain, the length field of the candidate at index (indices
\* count from 0 as in the code)
totalLenAt(data, index) == 4 + data[index + 3] + data[index + 4] * ByteModulus

\* a faulty variant of that turn, against which C17 is tested: an incomplete
\* candidate is passed over instead of being kept for the next chunk
scanStepNeverWaits(data, index) ==
    IF index + 5 > Len(data) THEN "end"
    ELSE IF data[index + 1] # header[1] \/ data[index + 2] # header[2] THEN "skip"
    ELSE IF index + totalLenAt(data, index) > Len(data) THEN "skip"
    ELSE IF SumOf(data, index + 1, index + totalLenAt(data, index) - 1) % ByteModulus
                # data[index + totalLenAt(data, index)]
         THEN "bad"
    ELSE "frame"

\* unpackWithRemain, one turn of the while loop at index: the loop has ended,
\* no header here, the candidate is incomplete (break), its checksum is
\* wrong, or a frame is extracted
scanStep(data, index) ==
    IF index + 5 > Len(data) THEN "end"
    ELSE IF data[index + 1] # header[1] \/ data[index + 2] # header[2] THEN "skip"
    ELSE IF index + totalLenAt(data, index) > Len(data) THEN "wait"
    ELSE IF SumOf(data, index + 1, index + totalLenAt(data, index) - 1) % ByteModulus
                # data[index + totalLenAt(data, index)]
         THEN "bad"
    ELSE "frame"

\* a faulty variant of the resynchronisation, against which C19 is tested:
\* a candidate with a wrong checksum is skipped whole
AfterBadChecksumSkipsCandidate(data, index) == index + totalLenAt(data, index)

\* unpackWithRemain, lines 63-67: where the scan resumes after a candidate
\* with a wrong checksum
AfterBadChecksum(data, index) == index + 1

\* unpackWithRemain, the while loop from index on: the frames extracted, each
\* with the offset it was found at, and the index the loop stops at
RECURSIVE scan(_, _, _)
scan(data, index, result) ==
    LET k == scanStep(data, index)
    IN  IF k = "skip" THEN scan(data, index + 1, result)
        ELSE IF k = "bad" THEN scan(data, AfterBadChecksum(data, index), result)
        ELSE IF k = "frame"
             THEN scan(data, index + totalLenAt(data, index),
                       Append(result,
                              [at |-> index,
                               bytes |-> SubSeq(data, index + 1,
                                                index + totalLenAt(data, index))]))
        ELSE [frames |-> result, index |-> index]

\* PhysicalLayer.unpackWithRemain
unpackWithRemain(data) ==
    LET r == scan(data, 0, << >>)
    IN  [frames |-> [i \in 1..Len(r.frames) |-> r.frames[i].bytes],
         remain |-> SubSeq(data, r.index + 1, Len(data))]

\* _processPhysicalFrame, lines 844-857: the payload of an extracted frame;
\* a frame whose length field disagrees with its length is dropped
payloadOf(physicalFrame) ==
    IF Len(physicalFrame) < 5 \/ Len(physicalFrame) # totalLenAt(physicalFrame, 0)
    THEN << >>
    ELSE SubSeq(physicalFrame, 5, Len(physicalFrame) - 1)

\* the frames that a scan of buffer hands to _processPhysicalFrame, each with
\* its offset in the stream of which buffer is the tail
Dispatches(buffer) ==
    LET r == scan(buffer, 0, << >>)
        base == Len(arrived') - Len(buffer)
    IN  [i \in 1..Len(r.frames) |->
            [at |-> base + r.frames[i].at, bytes |-> r.frames[i].bytes]]

\* a faulty variant of _processBufferedFrames, against which C20 is tested:
\* the scanned bytes stay in the buffer
BufferKept(buffer) == buffer

\* _processBufferedFrames, line 832: what the buffer holds after the scan
BufferAfterScan(buffer) == unpackWithRemain(buffer).remain

\* the idle timer set by startReceivingTimeoutTimer fires: a non-empty buffer
\* is scanned once more by _processBufferedFrames and then emptied; the map
\* keeps the handle of the fired timer
IdleTimeout(d) ==
    /\ Quiet
    /\ receivingTimeoutTimers[d] = "armed"
    /\ receivingTimeoutTimers' = [receivingTimeoutTimers EXCEPT ![d] = "fired"]
    /\ arrived' = arrived
    /\ IF dataBuffers[d].has /\ Len(dataBuffers[d].v) > 0
       THEN /\ dataBuffers' = [dataBuffers EXCEPT ![d] = [has |-> TRUE, v |-> << >>]]
            /\ dispatched' = dispatched \o Dispatches(dataBuffers[d].v)
            /\ flushed' = TRUE
       ELSE UNCHANGED << dataBuffers, dispatched, flushed >>
    /\ returned' = { }
    /\ written' = << >>
    /\ emitted' = << >>
    /\ UNCHANGED << link, cbPending, connections, frameIndexes, dynamicKeys,
                    pendingFrameResponses, authPromises, authTimers, authStatusMap,
                    disconnectingDevices, calls, connCall, discCall, inflight,
                    microQ, authProg, expired, wire, packed, codec, frameQ,
                    handled >>

\* handleReceivedData for a notification that carries the next n bytes of the
\* wire: they are appended to the buffer, _processBufferedFrames keeps the
\* remainder and hands every complete frame to _processPhysicalFrame, and the
\* idle timer is restarted.  The frames of this level carry no transport
\* packet (TransportLayer.unpack returns no data for them), so the layers
\* above change nothing
NotifyBytes(d, n) ==
    /\ Quiet
    /\ n \in 1..Len(wire)
    /\ LET buffer == dataBuffers[d].v \o SubSeq(wire, 1, n)
       IN  /\ arrived' = arrived \o SubSeq(wire, 1, n)
           /\ wire' = SubSeq(wire, n + 1, Len(wire))
           /\ dataBuffers' = [dataBuffers EXCEPT ![d] =
                    [has |-> TRUE, v |-> BufferAfterScan(buffer)]]
           /\ dispatched' = dispatched \o Dispatches(buffer)
    /\ receivingTimeoutTimers' = [receivingTimeoutTimers EXCEPT ![d] = "armed"]
    /\ returned' = { }
    /\ written' = << >>
    /\ emitted' = << >>
    /\ UNCHANGED << link, cbPending, connections, frameIndexes, dynamicKeys,
                    pendingFrameResponses, authPromises, authTimers, authStatusMap,
                    disconnectingDevices, calls, connCall, discCall, inflight,
                    microQ, authProg, expired, flushed, packed, codec, frameQ,
                    handled >>

\* PhysicalLayer.pack is applied to the payload drawn at the start
Pack ==
    /\ packed.frame = << >>
    /\ packed' = [packed EXCEPT !.frame = pack(packed.payload)]
    /\ returned' = { }
    /\ written' = << >>
    /\ emitted' = << >>
    /\ UNCHANGED << link, cbPending, connections, frameIndexes, dynamicKeys,
                    dataBuffers, receivingTimeoutTimers, pendingFrameResponses,
                    authPromises, authTimers, authStatusMap, disconnectingDevices,
                    calls, connCall, discCall, inflight, microQ, authProg,
                    expired, wire, arrived, dispatched, flushed, codec, frameQ,
                    handled >>

----------------------------------------------------------------------------
(* Disconnection *)

\* a faulty variant of DeleteDeviceState, against which C28 is tested: the
\* waiter maps of all devices are dropped
DeleteEveryWaiterMap(d) ==
    /\ frameIndexes' = [frameIndexes EXCEPT ![d] = Absent]
    /\ dynamicKeys' = [dynamicKeys EXCEPT ![d] = NoKey]
    /\ dataBuffers' = [dataBuffers EXCEPT ![d] = NoBuffer]
    /\ pendingFrameResponses' = [o \in Devices |-> NoMap]
    /\ calls' = CallsAfter({ }, calls, CallsOf(d))
    /\ authStatusMap' = [authStatusMap EXCEPT ![d] = "undefined"]
    /\ authTimers' = [authTimers EXCEPT ![d] = @ \ {authPromises[d]}]
    /\ authPromises' = [authPromises EXCEPT ![d] = 0]
    /\ receivingTimeoutTimers' = [receivingTimeoutTimers EXCEPT ![d] = "absent"]

\* the per-device maps deleted by disconnectDevice, _handleDeviceDisconnected
\* and _forceCleanupLocalState alike; the timer of the stored authPromise and
\* the idle timer are cleared, the waiters still in the map lose it
DeleteDeviceState(d) ==
    /\ frameIndexes' = [frameIndexes EXCEPT ![d] = Absent]
    /\ dynamicKeys' = [dynamicKeys EXCEPT ![d] = NoKey]
    /\ dataBuffers' = [dataBuffers EXCEPT ![d] = NoBuffer]
    /\ pendingFrameResponses' = [pendingFrameResponses EXCEPT ![d] = NoMap]
    /\ calls' = CallsAfter({ }, calls, CallsOf(d))
    /\ authStatusMap' = [authStatusMap EXCEPT ![d] = "undefined"]
    /\ authTimers' = [authTimers EXCEPT ![d] = @ \ {authPromises[d]}]
    /\ authPromises' = [authPromises EXCEPT ![d] = 0]
    /\ receivingTimeoutTimers' = [receivingTimeoutTimers EXCEPT ![d] = "absent"]

\* the attempts whose CONNECT waiter is rejected by clearPendingFrameResponses
ClearedAttempts(d) == { c[3] : c \in InMap(d) \cap EngineCalls(d) }

\* disconnectDevice up to await BleClient.disconnect: the flag, the status,
\* clearPendingFrameResponses and the continuations of the rejected calls
disconnectBegin(d) ==
    LET S == InMap(d)
        after == [c \in S |-> FailedCall(c, "closed")]
        T == ClearedAttempts(d)
    IN
    /\ disconnectingDevices' = disconnectingDevices \cup {d}
    /\ connections' = [connections EXCEPT ![d].status = "disconnecting"]
    /\ pendingFrameResponses' = [pendingFrameResponses EXCEPT ![d].map = { }]
    /\ calls' = CallsAfter(S, after, { })
    /\ returned' = Returned(S, after)
    /\ authPromises' = AuthPromisesAfterThrow(d, T)
    /\ authStatusMap' = AuthStatusAfterThrow(d, T)

\* disconnectDevice after BleClient.disconnect succeeded
disconnectSuccess(d) ==
    /\ link' = [link EXCEPT ![d] = "down"]
    /\ cbPending' = [cbPending EXCEPT ![d] = @ \/ link[d] # "down"]
    /\ connections' = [connections EXCEPT ![d] = NoConnection]
    /\ emitted' = << [type |-> "disconnected", deviceId |-> d] >>
    /\ DeleteDeviceState(d)
    /\ disconnectingDevices' = disconnectingDevices \ {d}

\* the caller invokes disconnectDevice
UserDisconnectCall(d) ==
    /\ discCall[d] = "idle"
    /\ connections[d].status # "absent"
    /\ d \notin disconnectingDevices
    /\ disconnectBegin(d)
    /\ connCall' = [connCall EXCEPT ![d] =
            ConnectAfterReject(d, ClearedAttempts(d), "firstAuth")]
    /\ discCall' = [discCall EXCEPT ![d] = "awaiting"]
    /\ written' = << >>
    /\ emitted' = << >>
    /\ UNCHANGED << link, cbPending, frameIndexes, dynamicKeys, dataBuffers,
                    receivingTimeoutTimers, authTimers, inflight, microQ, authProg, expired, phyVars >>

\* BleClient.disconnect of the caller's disconnectDevice settles
UserDisconnectDone(d, ok) ==
    /\ Quiet
    /\ discCall[d] = "awaiting"
    /\ discCall' = [discCall EXCEPT ![d] = "idle"]
    /\ IF ok
       THEN /\ disconnectSuccess(d)
            /\ connCall' = [connCall EXCEPT ![d] = Reported(@)]
       ELSE /\ disconnectingDevices' = disconnectingDevices \ {d}
            /\ emitted' = << >>
            /\ UNCHANGED << link, cbPending, connections, frameIndexes, dynamicKeys,
                            dataBuffers, pendingFrameResponses, calls, authStatusMap,
                            authTimers, authPromises, receivingTimeoutTimers,
                            connCall >>
    /\ returned' = { }
    /\ written' = << >>
    /\ UNCHANGED << inflight, microQ, authProg, expired, phyVars >>

\* the transport loses the link; the disconnect callback becomes due
LinkDrop(d) ==
    /\ Quiet
    /\ link[d] # "down"
    /\ link' = [link EXCEPT ![d] = "down"]
    /\ cbPending' = [cbPending EXCEPT ![d] = TRUE]
    /\ returned' = { }
    /\ written' = << >>
    /\ emitted' = << >>
    /\ UNCHANGED << connections, frameIndexes, dynamicKeys, dataBuffers,
                    receivingTimeoutTimers, pendingFrameResponses, authPromises,
                    authTimers, authStatusMap, disconnectingDevices, calls,
                    connCall, discCall, inflight, microQ, authProg, expired, phyVars >>

\* _handleDeviceDisconnected, the callback given to BleClient.connect
HandleDeviceDisconnected(d) ==
    /\ Quiet
    /\ cbPending[d]
    /\ cbPending' = [cbPending EXCEPT ![d] = FALSE]
    /\ IF d \in disconnectingDevices
       THEN /\ emitted' = << >>
            /\ UNCHANGED << connections, frameIndexes, dynamicKeys, dataBuffers,
                            pendingFrameResponses, calls, authStatusMap, authTimers,
                            authPromises, receivingTimeoutTimers, connCall >>
       ELSE /\ connections' = [connections EXCEPT ![d] =
                    IF @.status = "absent" THEN @
                    ELSE [isConnected |-> FALSE, status |-> "disconnected"]]
            /\ DeleteDeviceState(d)
            /\ emitted' = << [type |-> "disconnected", deviceId |-> d] >>
            /\ connCall' = [connCall EXCEPT ![d] = Reported(@)]
    /\ disconnectingDevices' = disconnectingDevices \ {d}
    /\ returned' = { }
    /\ written' = << >>
    /\ UNCHANGED << link, discCall, inflight, microQ, authProg, expired, phyVars >>

----------------------------------------------------------------------------
(* _cleanupConnection, run by the catch block of connectToDevice *)

\* _forceCleanupLocalState(d)
forceCleanupLocalState(d) ==
    /\ connections' = [connections EXCEPT ![d] = NoConnection]
    /\ DeleteDeviceState(d)
    /\ disconnectingDevices' = disconnectingDevices \ {d}

\* a wait of _cleanupConnection ends and it calls disconnectDevice, which
\* returns at once without a connection or with the flag set
CleanupWake(d) ==
    /\ Quiet
    /\ connCall[d].pc = "cleanupSleep"
    /\ IF connections[d].status = "absent" \/ d \in disconnectingDevices
       THEN /\ connCall' = [connCall EXCEPT ![d].pc = "rejected", ![d].retry = 0]
            /\ returned' = { }
            /\ UNCHANGED << disconnectingDevices, connections, pendingFrameResponses,
                            calls, authPromises, authStatusMap >>
       ELSE /\ disconnectBegin(d)
            /\ connCall' = [connCall EXCEPT ![d].pc = "cleanupDisc"]
    /\ written' = << >>
    /\ emitted' = << >>
    /\ UNCHANGED << link, cbPending, frameIndexes, dynamicKeys, dataBuffers,
                    receivingTimeoutTimers, authTimers, discCall, inflight,
                    microQ, authProg, expired, phyVars >>

\* BleClient.disconnect of the cleanup's disconnectDevice settles: done, or
\* another retry, or after the third failure _forceCleanupLocalState
CleanupDiscDone(d, ok) ==
    /\ Quiet
    /\ connCall[d].pc = "cleanupDisc"
    /\ IF ok
       THEN /\ disconnectSuccess(d)
            /\ connCall' = [connCall EXCEPT ![d] =
                    Reported([@ EXCEPT !.pc = "rejected", !.retry = 0])]
       ELSE IF connCall[d].retry + 1 < MaxCleanupRetries
       THEN /\ disconnectingDevices' = disconnectingDevices \ {d}
            /\ connCall' = [connCall EXCEPT ![d].pc = "cleanupSleep",
                                            ![d].retry = @ + 1]
            /\ emitted' = << >>
            /\ UNCHANGED << link, cbPending, connections, frameIndexes, dynamicKeys,
                            dataBuffers, pendingFrameResponses, calls, authStatusMap,
                            authTimers, authPromises, receivingTimeoutTimers >>
       ELSE /\ forceCleanupLocalState(d)
            /\ connCall' = [connCall EXCEPT ![d].pc = "rejected", ![d].retry = 0]
            /\ emitted' = << >>
            /\ UNCHANGED << link, cbPending >>
    /\ returned' = { }
    /\ written' = << >>
    /\ UNCHANGED << discCall, inflight, microQ, authProg, expired, phyVars >>

----------------------------------------------------------------------------
(* The environment: what the caller, the transport and the peer do *)

Active == {"A"}

\* the caller retries connectToDevice once the I/O of the previous attempt
\* has settled
Settled(d) ==
    /\ inflight[d] = 0
    /\ discCall[d] = "idle"
    /\ ~cbPending[d]
    /\ \A c \in EngineCalls(d) : calls[c].pc = "free"

\* the peer stops sending handshake requests once their order was broken
PeerInHandshake(d) == authProg[d] # -1

\* the frame is the peer's next handshake request
InOrder(d, m) == authProg[d] = m.data[1] - 1

\* the frame does not answer the CONNECT command with a bad acknowledgement
GoodConnectAck(d, m) ==
    \A c \in WaiterAt(d, m.frameIndex) \cap EngineCalls(d) :
        checkXorValidation(calls[c].req, m.data)

\* the caller's code runs: between two tasks, or in the task in which it has
\* just called sendCommand, never inside a continuation of the engine
CallerRuns == \A k \in 1..Len(microQ) : microQ[k][1] = "u"

\* connectToDevice has resolved for the device
Resolved(d) == connCall[d].pc = "resolved"

\* the commands the caller overlaps: one that advances the frame index and
\* waits, one that waits without advancing it, one that does neither
CmdCommands ==
    { uc \in UserCommands :
        \/ uc.cmd.command = "TIME_SYNC" /\ uc.ackType \in {REQUEST_WITH_ACK, ACK}
        \/ uc.cmd.command = "READ_DEVICE_INFO" /\ uc.ackType = REQUEST_WITHOUT_ACK }

----------------------------------------------------------------------------
(* Spec: connection, handshake, disconnection and cleanup of one device,
   with every failure of the transport and every order of the peer's
   handshake requests, over MaxAttempts connection attempts *)

Next ==
    \/ \E d \in Active : CallerRuns /\ Settled(d) /\ ConnectCall(d)
    \/ \E d \in Active, ok \in BOOLEAN : ConnectDone(d, ok)
    \/ \E d \in Active, ok \in BOOLEAN : DiscoverDone(d, ok)
    \/ \E d \in Active : SubscribeFail(d)
    \/ \E d \in Active, nonce \in Nonces : SessionInit(d, nonce)
    \/ BuildDone
    \/ \E c \in CallIds, ok \in BOOLEAN : WriteDone(c, ok)
    \/ \E c \in CallIds : CmdTimeout(c, FALSE)
    \/ \E d \in Active : \E m \in InboundFrames(d) : ReceiveIgnored(d, m)
    \/ \E d \in Active : \E m \in InboundFrames(d) : ReceiveAck(d, m)
    \/ \E d \in Active : \E m \in InboundFrames(d) : ReceiveReport(d, m)
    \/ \E d \in Active : \E m \in InboundFrames(d) :
            PeerInHandshake(d) /\ ReceiveAuth(d, m)
    \/ \E d \in Active : \E m \in InboundFrames(d) : ReceiveRequest(d, m)
    \/ \E d \in Active, ok \in BOOLEAN : InflightDone(d, ok)
    \/ \E d \in Active : AuthTimeout(d)
    \/ \E d \in Active : CallerRuns /\ UserDisconnectCall(d)
    \/ \E d \in Active, ok \in BOOLEAN : UserDisconnectDone(d, ok)
    \/ \E d \in Active : LinkDrop(d)
    \/ \E d \in Active : HandleDeviceDisconnected(d)
    \/ \E d \in Active : CleanupWake(d)
    \/ \E d \in Active, ok \in BOOLEAN : CleanupDiscDone(d, ok)

Spec == Init /\ [][Next]_vars

----------------------------------------------------------------------------
(* SpecCmd: one connection whose handshake runs without a fault, and the
   caller's commands on it: up to MaxUserCalls overlapping sendCommand calls,
   the peer's answers, timeouts, and both kinds of disconnection *)

NextCmd ==
    \/ \E d \in Active : CallerRuns /\ connCall[d].attempt = 0 /\ ConnectCall(d)
    \/ \E d \in Active : ConnectDone(d, TRUE)
    \/ \E d \in Active : DiscoverDone(d, TRUE)
    \/ \E d \in Active, nonce \in Nonces : SessionInit(d, nonce)
    \/ \E d \in Active, i \in 1..MaxUserCalls, uc \in CmdCommands :
            CallerRuns /\ frameIndexes[d] < MaxIdx /\ UserSend(d, i, uc)
    \/ BuildDone
    \/ \E c \in CallIds, ok \in BOOLEAN : (ok \/ c[1] = "u") /\ WriteDone(c, ok)
    \/ \E c \in CallIds : c[1] = "u" /\ CmdTimeout(c, FALSE)
    \/ \E d \in Active : \E m \in InboundFrames(d) : ReceiveIgnored(d, m)
    \/ \E d \in Active : \E m \in InboundFrames(d) :
            GoodConnectAck(d, m) /\ ReceiveAck(d, m)
    \/ \E d \in Active : \E m \in InboundFrames(d) : ReceiveReport(d, m)
    \/ \E d \in Active : \E m \in InboundFrames(d) :
            InOrder(d, m) /\ ReceiveAuth(d, m)
    \/ \E d \in Active : \E m \in InboundFrames(d) :
            GoodConnectAck(d, m) /\ ReceiveRequest(d, m)
    \/ \E d \in Active : InflightDone(d, TRUE)
    \/ \E d \in Active : CallerRuns /\ Resolved(d) /\ UserDisconnectCall(d)
    \/ \E d \in Active, ok \in BOOLEAN : UserDisconnectDone(d, ok)
    \/ \E d \in Active : Resolved(d) /\ LinkDrop(d)
    \/ \E d \in Active : HandleDeviceDisconnected(d)

SpecCmd == Init /\ [][NextCmd]_vars

----------------------------------------------------------------------------
(* SpecWrap: one connection whose handshake runs without a fault, and then
   one sendCommand call after another, of every ack type, each answered,
   until the frame index has gone round *)

NextWrap ==
    \/ \E d \in Active : CallerRuns /\ connCall[d].attempt = 0 /\ ConnectCall(d)
    \/ \E d \in Active : ConnectDone(d, TRUE)
    \/ \E d \in Active : DiscoverDone(d, TRUE)
    \/ \E d \in Active, nonce \in Nonces : SessionInit(d, nonce)
    \/ \E d \in Active, uc \in UserCommands :
            CallerRuns /\ Resolved(d) /\ UserSend(d, 1, uc)
    \/ BuildDone
    \/ \E c \in CallIds : WriteDone(c, TRUE)
    \/ \E d \in Active : \E m \in InboundFrames(d) :
            GoodConnectAck(d, m) /\ ReceiveAck(d, m)
    \/ \E d \in Active : \E m \in InboundFrames(d) :
            InOrder(d, m) /\ ReceiveAuth(d, m)
    \/ \E d \in Active : InflightDone(d, TRUE)
    \/ \E d \in Active : IdleTimeout(d)

SpecWrap == Init /\ [][NextWrap]_vars

----------------------------------------------------------------------------
(* SpecPair: two devices, each connected without a fault, and on each up to
   MaxUserCalls overlapping commands that wait for an acknowledgement, the
   peers' answers, answers nobody waits for, and timeouts *)

PairCommands ==
    { uc \in UserCommands :
        uc.cmd.command = "TIME_SYNC" /\ uc.ackType = REQUEST_WITH_ACK }

NextPair ==
    \/ \E d \in Devices : CallerRuns /\ connCall[d].attempt = 0 /\ ConnectCall(d)
    \/ \E d \in Devices : ConnectDone(d, TRUE)
    \/ \E d \in Devices : DiscoverDone(d, TRUE)
    \/ \E d \in Devices, nonce \in Nonces : SessionInit(d, nonce)
    \/ \E d \in Devices, i \in 1..MaxUserCalls, uc \in PairCommands :
            CallerRuns /\ Resolved(d) /\ frameIndexes[d] <= MaxIdx /\ UserSend(d, i, uc)
    \/ BuildDone
    \/ \E c \in CallIds : WriteDone(c, TRUE)
    \/ \E c \in CallIds : c[1] = "u" /\ CmdTimeout(c, FALSE)
    \/ \E d \in Devices : \E m \in InboundFrames(d) :
            GoodConnectAck(d, m) /\ ReceiveAck(d, m)
    \/ \E d \in Devices : \E m \in InboundFrames(d) :
            InOrder(d, m) /\ ReceiveAuth(d, m)
    \/ \E d \in Devices : InflightDone(d, TRUE)

SpecPair == Init /\ [][NextPair]_vars

----------------------------------------------------------------------------
(* SpecLate: one connection whose handshake runs without a fault, and on it
   commands that wait for their answer, timeouts, and answers that arrive
   after the timeout of their request *)

LateCommands ==
    { uc \in UserCommands :
        \/ uc.cmd.command = "TIME_SYNC" /\ uc.ackType = REQUEST_WITH_ACK
        \/ uc.cmd.command = "READ_DEVICE_INFO" /\ uc.ackType = REQUEST_WITHOUT_ACK }

NextLate ==
    \/ \E d \in Active : CallerRuns /\ connCall[d].attempt = 0 /\ ConnectCall(d)
    \/ \E d \in Active : ConnectDone(d, TRUE)
    \/ \E d \in Active : DiscoverDone(d, TRUE)
    \/ \E d \in Active, nonce \in Nonces : SessionInit(d, nonce)
    \/ \E d \in Active, i \in 1..MaxUserCalls, uc \in LateCommands :
            CallerRuns /\ Resolved(d) /\ frameIndexes[d] <= MaxIdx /\ UserSend(d, i, uc)
    \/ BuildDone
    \/ \E c \in CallIds : WriteDone(c, TRUE)
    \/ \E c \in CallIds, lateAnswer \in BOOLEAN : c[1] = "u" /\ CmdTimeout(c, lateAnswer)
    \/ \E d \in Active : \E m \in InboundFrames(d) :
            GoodConnectAck(d, m) /\ ReceiveAck(d, m)
    \/ \E d \in Active : \E m \in InboundFrames(d) :
            InOrder(d, m) /\ ReceiveAuth(d, m)
    \/ \E d \in Active : InflightDone(d, TRUE)

SpecLate == Init /\ [][NextLate]_vars

----------------------------------------------------------------------------
(* Disconnection and the pending waiters *)

\* the step begins a voluntary disconnect of d: disconnectDevice passes its
\* two guards and runs up to await BleClient.disconnect
VoluntaryDisconnect(d) ==
    /\ d \notin disconnectingDevices
    /\ d \in disconnectingDevices'
    /\ connections'[d].status = "disconnecting"

\* the step handles a device-initiated disconnect of d: the transport's
\* callback runs its cleanup
DeviceDisconnect(d) ==
    /\ cbPending[d]
    /\ ~cbPending'[d]
    /\ d \notin disconnectingDevices

\* the sendCommand call c returns in this step with the connection-closed error
RejectedClosed(c) == [call |-> c, res |-> "closed", data |-> << >>] \in returned'

\* C1, the device-initiated case: when the transport's callback handles the
\* disconnect, every waiter pending for the device is rejected in that step
\* with the connection-closed error
C1_DeviceDisconnectRejects ==
    [][\A d \in Devices :
          DeviceDisconnect(d)
              => \A c \in CallsOf(d) : IsWaiting(c) => RejectedClosed(c)]_vars

\* C1, the voluntary case: disconnectDevice rejects every waiter registered
\* in the device's map in the step that begins the disconnect
C1_VoluntaryRejects ==
    [][\A d \in Devices :
          VoluntaryDisconnect(d)
              => \A c \in InMap(d) : RejectedClosed(c)]_vars

\* C1: a device-initiated disconnect has been handled and a command's waiter
\* is still pending, its map gone, with only its own timeout left to end it
C1_Witness ==
    \E d \in Devices : \E c \in UserCalls(d) :
        /\ IsWaiting(c)
        /\ connections[d].status = "disconnected"
        /\ ~pendingFrameResponses[d].has

----------------------------------------------------------------------------
(* Disconnection during the handshake *)

\* connectToDevice awaits the promise of _autoAuthenticate for its attempt
AwaitsAuth(d) == connCall[d].pc = "authing"

\* nothing is left that could settle the promise connectToDevice awaits: the
\* stored authPromise is gone, the attempt's timer is cleared and its
\* _startFirstAuth has returned
Orphaned(d) ==
    /\ AwaitsAuth(d)
    /\ authPromises[d] # connCall[d].attempt
    /\ connCall[d].attempt \notin authTimers[d]
    /\ calls[<< "e", d, connCall[d].attempt >>].pc = "free"

\* C2: a disconnect during the handshake cancels the authentication with an
\* error, so connectToDevice is never left awaiting a promise that nothing
\* can settle any more
C2_ConnectNeverOrphaned == \A d \in Devices : ~Orphaned(d)

----------------------------------------------------------------------------
(* The order of the handshake *)

\* the authentication of d reaches Established in this step
Establishes(d) == authStatusMap[d] # "true" /\ authStatusMap'[d] = "true"

\* C3: the authentication of a device reaches Established only after the four
\* steps have happened in order: CONNECT ack validated, then 0x02, 0x03, 0x04
C3_EstablishedOnlyInOrder ==
    [][\A d \in Devices : Establishes(d) => authProg'[d] = 4]_vars

\* C3: connectToDevice has resolved although the handshake steps did not
\* happen in order
C3_Witness ==
    \E d \in Devices : connCall[d].pc = "resolved" /\ authProg[d] = -1

----------------------------------------------------------------------------
(* Business commands and the handshake *)

\* the authentication of d has reached Established
Established(d) == authStatusMap[d] = "true"

\* the caller's sendCommand call c hands its packet to BleClient.write in
\* this step
BusinessWrite(c) ==
    /\ c[1] = "u"
    /\ calls[c].pc = "build"
    /\ calls'[c].pc = "writing"
    /\ written' # << >>

\* C4: no business command is written to a device before the authentication
\* of that device has reached Established
C4_NoBusinessWriteBeforeEstablished ==
    [][\A c \in CallIds : BusinessWrite(c) => Established(c[2])]_vars

\* C4: a business command's write is in progress while connectToDevice still
\* awaits the handshake
C4_Witness ==
    \E d \in Devices : \E c \in UserCalls(d) :
        /\ calls[c].pc = "writing"
        /\ AwaitsAuth(d)
        /\ ~Established(d)

----------------------------------------------------------------------------
(* The authentication timer *)

\* the timer of the attempt connectToDevice is awaiting fires in this step
OwnAuthTimerFires(d) ==
    /\ AuthTimeout(d)
    /\ AwaitsAuth(d)
    /\ OldestAuthTimer(d) = connCall[d].attempt

\* connectToDevice is in its catch block because the timer fired
TimedOut(d) == connCall[d].err = "authTimeout"

\* no CONNECT command is built or written by this step
NoNewHandshake(d) ==
    \A c \in EngineCalls(d) :
        calls'[c].pc \in {"build", "writing"} => calls'[c] = calls[c]

\* C5: when the authentication timer of the running attempt fires, the
\* authentication becomes Failed and connectToDevice goes to its catch block,
\* which ends in the rejection; the step writes nothing, and from then until
\* the caller connects again no CONNECT command is sent
C5_AuthTimeoutFails ==
    /\ [][\A d \in Devices :
            /\ OwnAuthTimerFires(d) =>
                  /\ authStatusMap'[d] = "false"
                  /\ authPromises'[d] = 0
                  /\ connCall'[d].pc = "cleanupSleep"
                  /\ TimedOut(d)'
                  /\ written' = << >>
                  /\ NoNewHandshake(d)
            /\ (TimedOut(d) /\ TimedOut(d)') =>
                  /\ NoNewHandshake(d)
                  /\ connCall'[d].pc \in {"cleanupSleep", "cleanupDisc", "rejected"}
                  /\ connCall'[d].attempt = connCall[d].attempt]_vars
    /\ \A d \in Devices : TimedOut(d) ~> (connCall[d].pc = "rejected")

\* C5: the timer fired during the handshake, the authentication is Failed and
\* connectToDevice is in its catch block
C5_Witness ==
    \E d \in Devices :
        TimedOut(d) /\ connCall[d].pc = "cleanupSleep" /\ authStatusMap[d] = "false"

----------------------------------------------------------------------------
(* A CONNECT acknowledgement that fails the XOR validation *)

\* connectToDevice has rejected because the acknowledgement of CONNECT did not
\* pass the validation
RejectedForBadAck(d) == connCall[d].pc = "rejected" /\ connCall[d].err = "badAck"

\* no disconnectDevice call for d is in progress
NoDisconnectRunning(d) == d \notin disconnectingDevices /\ discCall[d] = "idle"

\* C6: once connectToDevice has rejected for a CONNECT acknowledgement that
\* fails the XOR validation and no disconnect is still running, the session
\* is torn down: isDeviceConnected is false
C6_BadAckTearsDown ==
    \A d \in Devices :
        (RejectedForBadAck(d) /\ NoDisconnectRunning(d)) => ~isDeviceConnected(d)

\* C6: connectToDevice has rejected for a bad CONNECT acknowledgement, nothing
\* is still disconnecting, and the device counts as connected
C6_Witness ==
    \E d \in Devices :
        RejectedForBadAck(d) /\ NoDisconnectRunning(d) /\ isDeviceConnected(d)

\* C6: the acknowledgement of CONNECT fails the validation in this step
BadAckStep(d) ==
    \E r \in returned' :
        /\ r.call = << "e", d, connCall[d].attempt >>
        /\ r.res \in {"ok", "invalid"}
        /\ AwaitsAuth(d)
        /\ FirstAuthThrows(r.call, r)

\* C6, the first half: a CONNECT acknowledgement that fails the validation
\* makes the authentication Failed and sends connectToDevice to its catch block
C6_BadAckFails ==
    [][\A d \in Devices :
          BadAckStep(d) =>
              /\ authStatusMap'[d] = "false"
              /\ connCall'[d].pc = "cleanupSleep"
              /\ connCall'[d].err = "badAck"]_vars

----------------------------------------------------------------------------
(* The session key *)

\* the step handles the handshake request op of the peer
Handles(d, op) == inflight[d] = 0 /\ inflight'[d] = op

\* the session key of d is replaced in this step by another key
Rekeyed(d) == dynamicKeys'[d].has /\ dynamicKeys'[d] # dynamicKeys[d]

\* C7, the first two parts: when a 0x03 or 0x04 request is handled, the
\* session key becomes the body of that request, which is echoed back
C7_KeyFollowsRequest ==
    [][\A d \in Devices : \A op \in {3, 4} :
          Handles(d, op) =>
              /\ written'[1].data[1] = op
              /\ dynamicKeys'[d].v = Tail(written'[1].data)]_vars

\* C7, the last part: while connectToDevice has resolved and the session
\* lasts, the session key is the fragment of the 0x04 request: only handling
\* a 0x04 request replaces it
C7_ResolvedKeyIsStep4 ==
    [][\A d \in Devices :
          (connCall[d].pc = "resolved" /\ connCall'[d].pc = "resolved" /\ Rekeyed(d))
              => Handles(d, 4)]_vars

\* C7: connectToDevice has resolved and a 0x03 request is being answered, its
\* body now the session key
C7_Witness ==
    \E d \in Devices : connCall[d].pc = "resolved" /\ inflight[d] = 3

----------------------------------------------------------------------------
(* The frame index *)

\* the frame index of d as sendCommand reads it
CurrentIndex(d) == IF frameIndexes[d] = Absent THEN 0 ELSE frameIndexes[d]

\* the sendCommand call c finishes building its packet in this step
Sends(c) == calls[c].pc = "build" /\ calls'[c].pc = "writing"

\* connectToDevice initialises the session of d in this step
SessionStarts(d) == connCall[d].pc = "subscribing" /\ connCall'[d].pc # "subscribing"

\* C8: the frame index of a device stays in 0..255; every REQUEST_WITH_ACK
\* send increases it by exactly 1 modulo 256; within a session nothing else
\* changes it: not a send of another ack type, not an automatic reply
C8_FrameIndexDiscipline ==
    [][\A d \in Devices :
          /\ frameIndexes'[d] \in (0..(FrameIndexModulus - 1)) \cup {Absent}
          /\ \A c \in CallsOf(d) :
                (Sends(c) /\ calls[c].ackType = REQUEST_WITH_ACK)
                    => frameIndexes'[d] = (CurrentIndex(d) + 1) % FrameIndexModulus
          /\ (frameIndexes[d] # Absent /\ frameIndexes'[d] # Absent
                /\ frameIndexes'[d] # frameIndexes[d] /\ ~SessionStarts(d))
                    => \E c \in CallsOf(d) :
                          Sends(c) /\ calls[c].ackType = REQUEST_WITH_ACK]_vars

\* C8: the second of two overlapping REQUEST_WITH_ACK sends is being written
\* and the frame index is where the first one left it
C8_Witness ==
    \E d \in Devices : \E c1, c2 \in UserCalls(d) :
        /\ c1 # c2
        /\ calls[c1].ackType = REQUEST_WITH_ACK
        /\ calls[c2].ackType = REQUEST_WITH_ACK
        /\ calls[c1].pc \in {"writing", "waiting"}
        /\ calls[c2].pc \in {"writing", "waiting"}
        /\ calls[c1].fi = calls[c2].fi
        /\ frameIndexes[d] = calls[c1].fi + 1

----------------------------------------------------------------------------
(* Waiters *)

\* C9: no two unsettled waiters of one device wait on the same frame index
C9_OneWaiterPerIndex ==
    \A d \in Devices : \A c1, c2 \in CallsOf(d) :
        (IsWaiting(c1) /\ IsWaiting(c2) /\ calls[c1].fi = calls[c2].fi)
            => c1 = c2

\* C9: two sends of one device wait on the same frame index, and the entry
\* of the earlier one has been replaced by the later one's
C9_Witness ==
    \E d \in Devices : \E c1, c2 \in UserCalls(d) :
        /\ c1 # c2
        /\ IsWaiting(c1) /\ IsWaiting(c2)
        /\ calls[c1].fi = calls[c2].fi
        /\ ~calls[c1].attached
        /\ calls[c2].attached

----------------------------------------------------------------------------
(* Acknowledgements *)

\* the entries of the map of d under frame index i
EntriesAt(d, i) == { e \in pendingFrameResponses[d].map : e[1] = i }

\* C10: when an ACK frame with frame index i is handled for device d, the
\* call registered under (d, i) gets the frame's application data and is no
\* longer waiting, the entry of i is gone, every other entry of every device
\* and every other call is as before, and without an entry for i nothing
\* about waiters changes
C10_AckResolvesItsWaiter ==
    [][\A d \in Devices : \A m \in { f \in InboundFrames(d) : f.ackType = ACK } :
          ReceiveAck(d, m) =>
              LET S == { e[2] : e \in EntriesAt(d, m.frameIndex) } IN
              /\ \A c \in S :
                    /\ calls'[c].pc = "free"
                    /\ \E r \in returned' :
                          r.call = c /\ r.data = m.data /\ r.res \in {"ok", "invalid"}
              /\ \A r \in returned' : r.call \in S
              /\ pendingFrameResponses'[d].map =
                    pendingFrameResponses[d].map \ EntriesAt(d, m.frameIndex)
              /\ \A x \in Devices \ {d} :
                    pendingFrameResponses'[x] = pendingFrameResponses[x]
              /\ \A c \in CallIds \ S : calls'[c] = calls[c]
              /\ S = { } => pendingFrameResponses' = pendingFrameResponses]_vars

\* C10: a call has just been resolved by an acknowledgement while a call of
\* the same device under another frame index and a call of the other device
\* are still registered and waiting
C10_Witness ==
    \E d \in Devices : \E x \in Devices \ {d} :
        \E r \in returned : \E c \in UserCalls(d) : \E c2 \in UserCalls(x) :
            /\ r.call \in UserCalls(d)
            /\ r.res = "ok"
            /\ IsWaiting(c) /\ c \in InMap(d)
            /\ IsWaiting(c2) /\ c2 \in InMap(x)

----------------------------------------------------------------------------
(* Device reports *)

\* BusinessCmd.UPLOAD_STATUS, the status report a device sends on its own
UPLOAD_STATUS == 7

\* the step handles the REQUEST_WITH_ACK frame m of d, a status report
HandlesStatusReport(d, m) ==
    /\ m.ackType = REQUEST_WITH_ACK
    /\ m.data[1] = UPLOAD_STATUS
    /\ ReceiveReport(d, m)

\* the step writes exactly one ACK packet with the frame index of m and the
\* application data [opcode of m, 0x01]
EchoWritten(d, m) ==
    /\ Len(written') = 1
    /\ written'[1].deviceId = d
    /\ written'[1].ackType = ACK
    /\ written'[1].frameIndex = m.frameIndex
    /\ written'[1].data = << m.data[1], 1 >>

\* the step emits the deviceReport event for d
ReportEmitted(d) == \E k \in 1..Len(emitted') : emitted'[k] = [type |-> "deviceReport", deviceId |-> d]

\* C11, as stated: every inbound status report is answered by the echo
\* [opcode, 0x01] of ack type ACK on its frame index, and a report event is
\* emitted for it
C11_EveryReportEmitsAndEchoes ==
    [][\A d \in Devices : \A m \in InboundFrames(d) :
          HandlesStatusReport(d, m) => EchoWritten(d, m) /\ ReportEmitted(d)]_vars

\* C11, amended: every inbound status report is answered by the echo
\* [opcode, 0x01] of ack type ACK on its frame index; the report event is
\* emitted when the report has the 7 bytes of a status report, and an error
\* event, no report event, when it has another length
C11_ReportEchoed ==
    [][\A d \in Devices : \A m \in InboundFrames(d) :
          HandlesStatusReport(d, m) =>
              /\ EchoWritten(d, m)
              /\ Len(m.data) = 7 => ReportEmitted(d)
              /\ Len(m.data) # 7 =>
                    /\ ~ReportEmitted(d)
                    /\ emitted' = << [type |-> "error", deviceId |-> d] >>]_vars

\* C11: a well-formed status report has just been handled: its events are
\* out and its echo is written
C11_Witness ==
    \E d \in Devices :
        /\ Len(emitted) = 3
        /\ emitted[1] = [type |-> "deviceReport", deviceId |-> d]
        /\ Len(written) = 1
        /\ written[1].ackType = ACK
        /\ written[1].data = << UPLOAD_STATUS, 1 >>
        /\ written[1].frameIndex = 9

----------------------------------------------------------------------------
(* Business responses that arrive as REQUEST_WITH_ACK *)

\* the opcodes of the three handshake requests
AuthStepOpcodes == {2, 3, 4}

\* the REQUEST_WITH_ACK frames of d with an opcode of Ops
RequestsWith(d, Ops) ==
    { f \in InboundFrames(d) : f.ackType = REQUEST_WITH_ACK /\ f.data[1] \in Ops }

\* the step handles the REQUEST_WITH_ACK frame m of d
HandlesRequest(d, m) == ReceiveReport(d, m) \/ ReceiveAuth(d, m) \/ ReceiveRequest(d, m)

\* the step ends the call registered under the frame index of m with the
\* application data of m
ResolvesWaiterOf(d, m) ==
    \A e \in EntriesAt(d, m.frameIndex) :
        /\ calls'[e[2]].pc = "free"
        /\ \E r \in returned' : r.call = e[2] /\ r.data = m.data

\* C12: a REQUEST_WITH_ACK frame whose opcode is neither the status report
\* 0x07 nor a handshake step resolves the waiter of its frame index with its
\* data; the opcodes include 0x06, the response to READ_DEVICE_INFO
C12_OtherRequestResolves ==
    [][\A d \in Devices :
          \A m \in RequestsWith(d, (0..255) \ ({UPLOAD_STATUS} \cup AuthStepOpcodes)) :
              HandlesRequest(d, m) => ResolvesWaiterOf(d, m)]_vars

\* C12, without opcode 0x06: every other such frame does resolve the waiter
C12_NonReportResolves ==
    [][\A d \in Devices :
          \A m \in RequestsWith(d, (0..255) \ ({6, UPLOAD_STATUS} \cup AuthStepOpcodes)) :
              HandlesRequest(d, m) => ResolvesWaiterOf(d, m)]_vars

\* C12: a READ_DEVICE_INFO call is still waiting although the response on its
\* frame index has just been handled: it was taken for a report and echoed
C12_Witness ==
    \E d \in Devices : \E c \in UserCalls(d) :
        /\ IsWaiting(c)
        /\ c \in InMap(d)
        /\ calls[c].req[1] = 6
        /\ Len(written) = 1
        /\ written[1].ackType = ACK
        /\ written[1].frameIndex = calls[c].fi
        /\ written[1].data = << 5, 1 >>
        /\ Len(emitted) = 3

----------------------------------------------------------------------------
(* Timeouts of waiters *)

\* the ACK frame that answers, late, the timed-out request x of d
LateAnswers(d, x) ==
    { [ackType |-> ACK, frameIndex |-> x[1], data |-> r, key |-> dynamicKeys[d].v]
        : r \in Replies(x[2]) }

\* the step settles no call and leaves the waiters as they are
ResolvesNothing ==
    /\ returned' = { }
    /\ calls' = calls
    /\ pendingFrameResponses' = pendingFrameResponses

\* C13: when the timer of a waiter fires, its sendCommand call returns the
\* timeout failure and the call has no entry in the map any more; an answer to
\* a request that arrives after the timeout of that request resolves nothing
C13_TimeoutSettles ==
    [][/\ \A c \in CallIds : \A lateAnswer \in BOOLEAN :
            CmdTimeout(c, lateAnswer) =>
                /\ calls'[c].pc = "free"
                /\ returned' = { FailedCall(c, "timeout") }
                /\ \A e \in pendingFrameResponses'[c[2]].map : e[2] # c
       /\ \A d \in Devices : \A x \in expired[d] : \A m \in LateAnswers(d, x) :
            ReceiveAck(d, m) => ResolvesNothing]_vars

\* C13, the timer alone: when the timer of a waiter fires, its sendCommand
\* call returns the timeout failure and the call has no entry in the map
C13_TimeoutRejects ==
    [][\A c \in CallIds : \A lateAnswer \in BOOLEAN :
            CmdTimeout(c, lateAnswer) =>
                /\ calls'[c].pc = "free"
                /\ returned' = { FailedCall(c, "timeout") }
                /\ \A e \in pendingFrameResponses'[c[2]].map : e[2] # c]_vars

\* C13, the liveness: every waiting call eventually stops waiting
C13_EventuallySettled ==
    \A c \in CallIds : IsWaiting(c) ~> ~IsWaiting(c)

\* C13: a READ_DEVICE_INFO request has timed out, and its late answer has
\* just ended another command, which fails the validation of its response
C13_Witness ==
    \E d \in Devices : \E x \in expired[d] : \E r \in returned :
        /\ x[2] = << 6 >>
        /\ r.call \in UserCalls(d)
        /\ r.res = "invalid"
        /\ r.data = << 6, 1, 5, 2, 1, 0, 0, 0 >>

\* SpecLate with the timers of the waiters firing and the microtasks running
SpecLateLive ==
    /\ Init /\ [][NextLate]_vars
    /\ WF_vars(BuildDone)
    /\ \A c \in CallIds : SF_vars(\E lateAnswer \in BOOLEAN : CmdTimeout(c, lateAnswer))

----------------------------------------------------------------------------
(* Responses that fail the business validation *)

\* the frames of d that handleApplicationData passes to resolveFrameResponse
ResponseFrames(d) ==
    { f \in InboundFrames(d) : f.ackType \in {ACK, REQUEST_WITH_ACK} }

\* C14: when a frame is matched to a waiting sendCommand call and its data
\* fails the validation against the request, the call returns in the same
\* step, and what it returns is the structured failure with the frame's data
C14_InvalidResponseReturned ==
    [][\A d \in Devices : \A m \in ResponseFrames(d) :
          \A e \in EntriesAt(d, m.frameIndex) :
              (/\ ~validateBusinessResponse(calls[e[2]].req[1], m.data)
               /\ ReceiveAck(d, m) \/ ReceiveRequest(d, m)) =>
                  /\ calls'[e[2]].pc = "free"
                  /\ \A r \in returned' :
                        r.call = e[2] => r.res = "invalid" /\ r.data = m.data
                  /\ \E r \in returned' : r.call = e[2]]_vars

\* C14: a caller's command has just returned the structured failure with the
\* bytes of a response whose result byte is not 0x01
C14_Witness ==
    \E d \in Devices : \E r \in returned :
        /\ r.call \in UserCalls(d)
        /\ r.res = "invalid"
        /\ r.data = << 5, 0 >>

----------------------------------------------------------------------------
(* The per-device collections of a disconnected device *)

\* the device was connected, the link is gone and every disconnect of it,
\* voluntary or device-initiated, has been handled
Disconnected(d) ==
    /\ connCall[d].pc = "resolved"
    /\ link[d] = "down"
    /\ ~cbPending[d]
    /\ discCall[d] = "idle"
    /\ d \notin disconnectingDevices

\* the session collections hold no entry for d
NoSessionEntries(d) ==
    /\ frameIndexes[d] = Absent
    /\ dynamicKeys[d] = NoKey
    /\ dataBuffers[d] = NoBuffer
    /\ pendingFrameResponses[d] = NoMap
    /\ authPromises[d] = 0
    /\ receivingTimeoutTimers[d] = "absent"

\* C15: while a device is disconnected no per-device collection holds an
\* entry for it
C15_NoEntriesWhileDisconnected ==
    \A d \in Devices :
        Disconnected(d) => connections[d] = NoConnection /\ NoSessionEntries(d)

\* C15, without this.connections: the session collections of a disconnected
\* device are empty
C15_NoSessionEntriesWhileDisconnected ==
    \A d \in Devices : Disconnected(d) => NoSessionEntries(d)

\* C15: a device-initiated disconnect has been handled and this.connections
\* still holds the device, marked disconnected
C15_Witness ==
    \E d \in Devices :
        /\ Disconnected(d)
        /\ connections[d].status = "disconnected"
        /\ ~connections[d].isConnected
        /\ NoSessionEntries(d)

----------------------------------------------------------------------------
(* Local state after a rejected connectToDevice *)

\* the last connectToDevice of d has rejected
Rejected(d) == connCall[d].pc = "rejected"

\* nothing of a session of d is left in the SDK
NoLocalState(d) ==
    /\ connections[d] = NoConnection
    /\ NoSessionEntries(d)
    /\ ~isDeviceConnected(d)

\* C16: after connectToDevice has rejected, no local session state of the
\* device remains and isDeviceConnected is false
C16_RejectedLeavesNoState ==
    \A d \in Devices : Rejected(d) => NoLocalState(d)

\* C16, when no disconnectDevice of the caller is running: the same
C16_RejectedLeavesNoStateQuiet ==
    \A d \in Devices : (Rejected(d) /\ NoDisconnectRunning(d)) => NoLocalState(d)

\* C16, the last part: no step of the teardown of a failed connectToDevice
\* writes a request to the device, so CONNECT is never sent again
C16_CleanupNeverSends ==
    [][\A d \in Devices :
          connCall[d].pc \in {"cleanupSleep", "cleanupDisc"} =>
              \A i \in 1..Len(written') :
                  written'[i].deviceId = d => written'[i].ackType = ACK]_vars

\* C16: connectToDevice has rejected, no disconnect is running, and the
\* device still has a connection entry that counts as connected
C16_Witness ==
    \E d \in Devices :
        /\ Rejected(d)
        /\ NoDisconnectRunning(d)
        /\ connections[d] # NoConnection
        /\ isDeviceConnected(d)

----------------------------------------------------------------------------
(* SpecPack and SpecPhy: the framing codec and the receive buffer, byte by
   byte *)

\* the longest payload of the enumerated ones
MaxPayloadLen == 3

\* the pieces a notification stream is made of
MaxPieces == 2

\* the byte values of the enumerated payloads: both header bytes, and the
\* extremes, which make the checksum wrap
PayloadBytes == {0, 90, 165, 255}

\* the sequences over S of length n
SeqsOfLen(S, n) == [1..n -> S]

\* n zero bytes
Zeros(n) == [i \in 1..n |-> 0]

\* the longest payload whose length + 1 fits the 2-byte length field
MaxFramedPayload == ByteModulus ^ 2 - 2

\* the payloads given to pack: the short ones, and those at the limit of the
\* length field
Payloads ==
    UNION { SeqsOfLen(PayloadBytes, n) : n \in 0..MaxPayloadLen }
        \cup { Zeros(MaxFramedPayload), Zeros(MaxFramedPayload + 1) }

InitPack ==
    /\ InitSession
    /\ wire = << >>
    /\ \E P \in Payloads : packed = [payload |-> P, frame |-> << >>]
    /\ codec = NoCall

NextPack == Pack

SpecPack == InitPack /\ [][NextPack]_vars

\* frame with its last byte, the checksum, made wrong
Corrupt(frame) ==
    [i \in 1..Len(frame) |->
        IF i = Len(frame) THEN (frame[i] + 1) % ByteModulus ELSE frame[i]]

\* a complete frame candidate with a wrong checksum whose payload is body
FailedCandidate(body) == Corrupt(pack(body))

\* the smallest frame, and a frame that carries it as its payload
EmptyFrame == pack(<< >>)

NestedFrame == pack(EmptyFrame)

\* a header whose length field announces 9 bytes
OpenHead == header \o intToLittleEndian(9, 2)

\* what the transport may deliver between two silences: noise, frames,
\* damaged frames, and damaged frames that contain frames
Pieces ==
    { << 0 >>, << 165 >>, header,
      EmptyFrame, pack(<< 7 >>), NestedFrame,
      Corrupt(EmptyFrame), Corrupt(pack(<< 7 >>)),
      FailedCandidate(EmptyFrame),
      FailedCandidate(<< 0 >> \o EmptyFrame \o << 0 >>),
      FailedCandidate(NestedFrame),
      FailedCandidate(OpenHead \o EmptyFrame),
      header \o intToLittleEndian(2, 2) }

RECURSIVE Concat(_)
Concat(seqs) == IF seqs = << >> THEN << >> ELSE Head(seqs) \o Concat(Tail(seqs))

\* the notification streams: up to MaxPieces pieces in a row
Streams ==
    { Concat(ps) : ps \in UNION { SeqsOfLen(Pieces, n) : n \in 0..MaxPieces } }

InitPhy ==
    /\ InitSession
    /\ wire \in Streams
    /\ packed = NoPack
    /\ codec = NoCall

NextPhy ==
    \/ \E d \in Active : \E n \in 1..Len(wire) : NotifyBytes(d, n)
    \/ \E d \in Active : IdleTimeout(d)

SpecPhy == InitPhy /\ [][NextPhy]_vars

----------------------------------------------------------------------------
(* SpecIso: two connections side by side, each with its handshake, a
   command, its answer and notification chunks; the devices of Active have
   waiter timeouts, idle flushes and disconnections as well, the other one
   stays connected *)

\* what the transport delivers in SpecIso: twice a frame followed by the head
\* of a frame that stays open
IsoChunk == EmptyFrame \o OpenHead

IsoWire == IsoChunk \o IsoChunk

\* the caller of SpecIso sends commands only up to this frame index
MaxIsoIdx == 1

InitIso ==
    /\ InitSession
    /\ wire = IsoWire
    /\ packed = NoPack
    /\ codec = NoCall

\* the steps of device d: the operations called for it and the events of its
\* link
StepOf(d) ==
    \/ CallerRuns /\ connCall[d].attempt = 0 /\ ConnectCall(d)
    \/ ConnectDone(d, TRUE)
    \/ DiscoverDone(d, TRUE)
    \/ \E nonce \in Nonces : SessionInit(d, nonce)
    \/ \E uc \in PairCommands :
            CallerRuns /\ Resolved(d) /\ frameIndexes[d] <= MaxIsoIdx /\ UserSend(d, 1, uc)
    \/ microQ # << >> /\ Head(microQ)[2] = d /\ BuildDone
    \/ \E c \in CallsOf(d) : WriteDone(c, TRUE)
    \/ \E m \in InboundFrames(d) : GoodConnectAck(d, m) /\ ReceiveAck(d, m)
    \/ \E m \in InboundFrames(d) : InOrder(d, m) /\ ReceiveAuth(d, m)
    \/ InflightDone(d, TRUE)
    \/ Resolved(d) /\ link[d] = "notifying" /\ Len(wire) >= Len(IsoChunk)
            /\ NotifyBytes(d, Len(IsoChunk))
    \/ \E c \in UserCalls(d) : d \in Active /\ CmdTimeout(c, FALSE)
    \/ d \in Active /\ IdleTimeout(d)
    \/ d \in Active /\ CallerRuns /\ Resolved(d) /\ UserDisconnectCall(d)
    \/ d \in Active /\ UserDisconnectDone(d, TRUE)
    \/ d \in Active /\ Resolved(d) /\ LinkDrop(d)
    \/ d \in Active /\ HandleDeviceDisconnected(d)

NextIso == \E d \in Devices : StepOf(d)

SpecIso == InitIso /\ [][NextIso]_vars

----------------------------------------------------------------------------
(* Reassembly of chunked input *)

\* the byte sequences of the frames dispatched so far, in order
DispatchedFrames == [i \in 1..Len(dispatched) |-> dispatched[i].bytes]

\* C17: as long as the idle timer has not flushed, the frames dispatched for
\* the chunks delivered so far and the remainder in the buffer are those of
\* one unpackWithRemain call on all the bytes delivered
C17_ChunkedEqualsWhole ==
    \A d \in Active :
        ~flushed =>
            /\ DispatchedFrames = unpackWithRemain(arrived).frames
            /\ dataBuffers[d].v = unpackWithRemain(arrived).remain

\* C17: a chunk ended inside a frame: a frame has been dispatched, the head of
\* the next one waits in the buffer, more bytes are to come, no flush so far
C17_Witness ==
    \E d \in Active :
        /\ ~flushed
        /\ Len(dispatched) >= 1
        /\ Len(dataBuffers[d].v) >= 3
        /\ SubSeq(dataBuffers[d].v, 1, 2) = header
        /\ wire # << >>

----------------------------------------------------------------------------
(* pack and its round trip *)

\* frame is header, little-endian length of payload + 1, payload, checksum
FrameLayout(payload, frame) ==
    /\ Len(frame) = Len(payload) + 5
    /\ SubSeq(frame, 1, 2) = header
    /\ frame[3] + frame[4] * ByteModulus = Len(payload) + 1
    /\ SubSeq(frame, 5, Len(frame) - 1) = payload
    /\ frame[Len(frame)] = SumOf(frame, 1, Len(frame) - 1) % ByteModulus

\* unpackWithRemain(frame) is one frame, nothing remains, and the payload
\* taken from that frame is payload
RoundTrip(payload, frame) ==
    /\ Len(unpackWithRemain(frame).frames) = 1
    /\ unpackWithRemain(frame).remain = << >>
    /\ payloadOf(unpackWithRemain(frame).frames[1]) = payload

\* C18, as stated: the frame packed for any payload has the frame layout and
\* unpacks to that payload alone
C18_PackRoundTripAny ==
    packed.frame # << >> =>
        FrameLayout(packed.payload, packed.frame)
            /\ RoundTrip(packed.payload, packed.frame)

\* C18, for the payloads whose length + 1 fits the 2-byte length field: the
\* frame packed has the frame layout and unpacks to that payload alone
C18_PackRoundTrip ==
    (packed.frame # << >> /\ Len(packed.payload) <= MaxFramedPayload) =>
        FrameLayout(packed.payload, packed.frame)
            /\ RoundTrip(packed.payload, packed.frame)

\* C18: the empty payload has been packed into the 5 bytes A5 5A 01 00 00
C18_Witness ==
    /\ packed.payload = << >>
    /\ packed.frame = << 165, 90, 1, 0, 0 >>

----------------------------------------------------------------------------
(* Resynchronisation after a wrong checksum *)

\* unpackWithRemain, the indices at which the while loop examines data, from
\* index on
RECURSIVE visits(_, _)
visits(data, index) ==
    LET k == scanStep(data, index)
    IN  {index} \cup
        (IF k = "skip" THEN visits(data, index + 1)
         ELSE IF k = "bad" THEN visits(data, AfterBadChecksum(data, index))
         ELSE IF k = "frame" THEN visits(data, index + totalLenAt(data, index))
         ELSE { })

\* the offsets at which the scan of data met a complete candidate with a
\* wrong checksum
FailedAt(data) == { i \in visits(data, 0) : scanStep(data, i) = "bad" }

\* the offsets inside the candidate at i, after its first byte
Inside(data, i) == (i + 1)..(i + totalLenAt(data, i) - 1)

\* a well-formed frame lies in data at offset j
WellFormedAt(data, j) == scanStep(data, j) = "frame"

\* the frame at offset j of the delivered bytes has been dispatched
DispatchedAt(j) == \E k \in 1..Len(dispatched) : dispatched[k].at = j

\* on its way from i to j the scan neither stops at a header whose announced
\* length exceeds the data nor extracts a frame that reaches beyond j
ScanReaches(data, i, j) ==
    \A k \in visits(data, 0) :
        (i < k /\ k < j) =>
            /\ scanStep(data, k) # "wait"
            /\ scanStep(data, k) = "frame" => k + totalLenAt(data, k) <= j

\* C19, the first part: after a complete candidate with a wrong checksum the
\* scan goes on at the next byte
C19_ResumesAtNextByte ==
    \A i \in FailedAt(arrived) : i + 1 \in visits(arrived, 0)

\* C19, as stated: after a complete candidate with a wrong checksum the scan
\* goes on at the next byte, and every well-formed frame that starts at a
\* later offset inside the candidate is extracted
C19_InnerFrameExtracted ==
    ~flushed =>
        \A i \in FailedAt(arrived) :
            /\ i + 1 \in visits(arrived, 0)
            /\ \A j \in Inside(arrived, i) :
                  WellFormedAt(arrived, j) => DispatchedAt(j)

\* C19, amended: after a complete candidate with a wrong checksum the scan
\* goes on at the next byte, and a well-formed frame that starts at a later
\* offset inside the candidate is extracted when the scan reaches that offset
C19_ReachedInnerFrameExtracted ==
    ~flushed =>
        \A i \in FailedAt(arrived) :
            /\ i + 1 \in visits(arrived, 0)
            /\ \A j \in Inside(arrived, i) :
                  (WellFormedAt(arrived, j) /\ ScanReaches(arrived, i, j))
                      => DispatchedAt(j)

\* C19: a candidate with a wrong checksum has been scanned and a frame that
\* starts inside it has been dispatched
C19_Witness ==
    /\ ~flushed
    /\ \E i \in FailedAt(arrived) : \E j \in Inside(arrived, i) :
          WellFormedAt(arrived, j) /\ DispatchedAt(j)

\* C19: a well-formed frame inside a failed candidate has not been extracted:
\* the scan stopped at an open header before it
C19_WitnessStalled ==
    /\ ~flushed
    /\ wire = << >>
    /\ \E i \in FailedAt(arrived) : \E j \in Inside(arrived, i) :
          /\ WellFormedAt(arrived, j)
          /\ ~DispatchedAt(j)
          /\ \E k \in visits(arrived, 0) :
                i < k /\ k < j /\ scanStep(arrived, k) = "wait"

----------------------------------------------------------------------------
(* Every frame is dispatched once *)

\* the offset in the delivered bytes just behind the k-th dispatched frame
EndOf(k) == dispatched[k].at + Len(dispatched[k].bytes)

\* the dispatched frames are disjoint stretches of the delivered bytes, in
\* the order of arrival
DispatchedOnce ==
    /\ \A k \in 1..Len(dispatched) :
          /\ EndOf(k) <= Len(arrived)
          /\ dispatched[k].bytes = SubSeq(arrived, dispatched[k].at + 1, EndOf(k))
    /\ \A k \in 1..(Len(dispatched) - 1) : EndOf(k) <= dispatched[k + 1].at

\* the buffer of d is a tail of the delivered bytes that begins behind every
\* dispatched frame
BufferIsUnconsumed(d) ==
    LET buffer == dataBuffers[d].v
        consumed == Len(arrived) - Len(buffer)
    IN  /\ consumed >= 0
        /\ buffer = SubSeq(arrived, consumed + 1, Len(arrived))
        /\ \A k \in 1..Len(dispatched) : EndOf(k) <= consumed

\* the step is a flush by the idle timer of d
Flushes(d) == IdleTimeout(d) /\ Len(dataBuffers[d].v) > 0

\* C20: no frame is dispatched twice: after every step the dispatched frames
\* are disjoint stretches of the input and the buffer holds only bytes behind
\* them; a flush by the idle timer dispatches nothing that lies before the
\* remainder it found and leaves the buffer empty
C20_DispatchedOnce ==
    [][/\ DispatchedOnce'
       /\ \A d \in Active :
             /\ BufferIsUnconsumed(d)'
             /\ Flushes(d) =>
                   /\ dataBuffers'[d].v = << >>
                   /\ \A k \in (Len(dispatched) + 1)..Len(dispatched') :
                         dispatched'[k].at >= Len(arrived) - Len(dataBuffers[d].v)]_vars

\* C20: frames were dispatched before and after a flush that dropped a
\* remainder, and the timer has fired again
C20_Witness ==
    \E d \in Active :
        /\ flushed
        /\ receivingTimeoutTimers[d] = "fired"
        /\ dataBuffers[d].v = << >>
        /\ Len(dispatched) >= 2
        /\ \E k \in 1..(Len(dispatched) - 1) : EndOf(k) < dispatched[k + 1].at

----------------------------------------------------------------------------
(* The codec functions: transport envelope, application envelope, command
   builders and parsers.  A call of one of them is a two-state behaviour:
   the input is drawn at the start, the step applies the function *)

\* the call of fn drawn at the start returns result
CodecStep(fn, result) ==
    /\ codec.fn = fn
    /\ ~codec.done
    /\ codec' = [codec EXCEPT !.out = result, !.done = TRUE]
    /\ returned' = { }
    /\ written' = << >>
    /\ emitted' = << >>
    /\ UNCHANGED << link, cbPending, connections, frameIndexes, dynamicKeys,
                    dataBuffers, receivingTimeoutTimers, pendingFrameResponses,
                    authPromises, authTimers, authStatusMap, disconnectingDevices,
                    calls, connCall, discCall, inflight, microQ, authProg,
                    expired, wire, arrived, dispatched, flushed, packed, frameQ,
                    handled >>

\* a call of fn with input x, not yet run
CallOf(fn, x) == [fn |-> fn, in |-> x, out |-> << >>, done |-> FALSE]

\* the call of fn has returned
Called(fn) == codec.fn = fn /\ codec.done

RECURSIVE BitAnd(_, _)
BitAnd(a, b) ==
    IF a = 0 \/ b = 0 THEN 0
    ELSE ((a % 2) * (b % 2)) + (2 * BitAnd(a \div 2, b \div 2))

\* TransportEncryptType
ENCRYPT == "encrypt"
NO_ENCRYPT == "noEncrypt"

\* the block size of AES, which is also its key size here
AesBlock == 16

\* CryptoJS.pad.Pkcs7.pad: 1..16 bytes, each holding their number
Pkcs7Pad(data) ==
    LET n == AesBlock - (Len(data) % AesBlock)
    IN  data \o [i \in 1..n |-> n]

\* the byte of the 16-byte key that meets position i
KeyByte(key, i) == key[((i - 1) % AesBlock) + 1]

\* AES under a 16-byte key, taken as an invertible keyed function: a keyed
\* substitution of every byte, and its inverse
Cipher(data, key) ==
    [i \in 1..Len(data) |-> 255 - ((data[i] + KeyByte(key, i)) % ByteModulus)]

Decipher(data, key) ==
    [i \in 1..Len(data) |-> (2 * ByteModulus + 255 - data[i] - KeyByte(key, i)) % ByteModulus]

\* AesEcbCryptoFactory.encrypt: the key used, and the ciphertext
AesEncrypt(data, secretKey) ==
    [key |-> NormalizeKey(secretKey),
     data |-> Cipher(Pkcs7Pad(data), NormalizeKey(secretKey))]

\* AesEcbCryptoFactory.decrypt: the key used, and the plaintext; Pkcs7.unpad
\* takes the last byte as the padding length, and new Uint8Array(sigBytes)
\* throws for a negative length
AesDecrypt(data, secretKey) ==
    LET key == NormalizeKey(secretKey)
        plain == Decipher(data, key)
        sigBytes == Len(plain) - (IF plain = << >> THEN 0 ELSE plain[Len(plain)])
    IN  [key |-> key,
         threw |-> sigBytes < 0,
         data |-> IF sigBytes < 0 THEN << >> ELSE SubSeq(plain, 1, sigBytes)]

\* a faulty control-byte table, against which C21 is tested: the bytes of
\* ACK and REQUEST_WITH_ACK are exchanged
controlByteSwapped(ackType, encryptType) ==
    CASE ackType = REQUEST_WITHOUT_ACK -> IF encryptType = ENCRYPT THEN 252 ELSE 244
      [] ackType = REQUEST_WITH_ACK -> IF encryptType = ENCRYPT THEN 253 ELSE 245
      [] ackType = ACK -> IF encryptType = ENCRYPT THEN 254 ELSE 246
      [] ackType = NONE -> IF encryptType = ENCRYPT THEN 255 ELSE 247

\* TransportLayerV1.pack, lines 31-45: the control byte
controlByteOf(ackType, encryptType) ==
    CASE ackType = REQUEST_WITHOUT_ACK -> IF encryptType = ENCRYPT THEN 252 ELSE 244
      [] ackType = REQUEST_WITH_ACK -> IF encryptType = ENCRYPT THEN 254 ELSE 246
      [] ackType = ACK -> IF encryptType = ENCRYPT THEN 253 ELSE 245
      [] ackType = NONE -> IF encryptType = ENCRYPT THEN 255 ELSE 247

\* TransportLayerV1.pack with the default crypto factory
transportPack(data, options) ==
    << options.version, controlByteOf(options.ackType, options.encryptType) >>
        \o (IF options.encryptType = ENCRYPT
            THEN AesEncrypt(data, options.secretKey).data
            ELSE data)

\* TransportLayerV1.unpack, lines 95-109: the ack type of the two low bits
ackTypeOfBits(ackBits) ==
    CASE ackBits = 0 -> REQUEST_WITHOUT_ACK
      [] ackBits = 2 -> REQUEST_WITH_ACK
      [] ackBits = 1 -> ACK
      [] ackBits = 3 -> NONE

\* a faulty variant of unpack, against which C33 is tested: the version byte
\* is not looked at
transportUnpackAnyVersion(data, secretKey) ==
    LET result == [version |-> 1, ackType |-> REQUEST_WITH_ACK,
                   encryptType |-> ENCRYPT, data |-> << >>, threw |-> FALSE]
    IN  IF Len(data) < 2 THEN result
        ELSE IF BitAnd(data[2], 4) # 0
             THEN LET tmp == AesDecrypt(SubSeq(data, 3, Len(data)), secretKey)
                  IN  IF tmp.threw THEN [result EXCEPT !.threw = TRUE]
                      ELSE [result EXCEPT !.data = tmp.data,
                                          !.ackType = ackTypeOfBits(BitAnd(data[2], 3))]
             ELSE [result EXCEPT !.encryptType = NO_ENCRYPT,
                                 !.data = SubSeq(data, 3, Len(data)),
                                 !.ackType = ackTypeOfBits(BitAnd(data[2], 3))]

\* TransportLayerV1.unpack; threw: the promise rejects
transportUnpack(data, secretKey) ==
    LET result == [version |-> 1, ackType |-> REQUEST_WITH_ACK,
                   encryptType |-> ENCRYPT, data |-> << >>, threw |-> FALSE]
    IN  IF Len(data) < 2 THEN result
        ELSE IF data[1] # 1 THEN [result EXCEPT !.version = data[1]]
        ELSE IF BitAnd(data[2], 4) # 0
             THEN LET tmp == AesDecrypt(SubSeq(data, 3, Len(data)), secretKey)
                  IN  IF tmp.threw THEN [result EXCEPT !.threw = TRUE]
                      ELSE [result EXCEPT !.data = tmp.data,
                                          !.ackType = ackTypeOfBits(BitAnd(data[2], 3))]
             ELSE [result EXCEPT !.encryptType = NO_ENCRYPT,
                                 !.data = SubSeq(data, 3, Len(data)),
                                 !.ackType = ackTypeOfBits(BitAnd(data[2], 3))]

\* the longest enumerated body of an envelope
MaxBodyLen == 2

\* the byte values of the enumerated bodies
BodyBytes == {0, 1, 16, 255}

\* the bodies: the short ones, one block, and one byte more than a block
Bodies ==
    UNION { [1..n -> BodyBytes] : n \in 0..MaxBodyLen }
        \cup { [i \in 1..AesBlock |-> i], [i \in 1..(AesBlock + 1) |-> 16] }

\* session keys of every kind of length: none (before the handshake), a
\* fragment of one byte, 15, 16 (the configured key), 17 and 20 bytes
Keys ==
    { << >>, << 17 >>, [i \in 1..15 |-> i], SecretKey,
      [i \in 1..17 |-> 2 * i], [i \in 1..20 |-> 255] }

TransportPackInputs ==
    { CallOf("transportPack",
             [data |-> P,
              options |-> [version |-> v, ackType |-> a, encryptType |-> e,
                           secretKey |-> K]])
        : P \in Bodies, v \in {1, 3}, a \in AckTypes, e \in {ENCRYPT, NO_ENCRYPT},
          K \in Keys }

TransportPackCall ==
    CodecStep("transportPack", transportPack(codec.in.data, codec.in.options))

\* DefaultApplicationLayer.pack; the elements of a Uint8Array wrap at 256
appPack(data, frameIndex) ==
    << frameIndex % ByteModulus, Len(data) % ByteModulus >> \o data

\* a faulty variant of unpack, against which C23 is tested: the length byte
\* is not compared
appUnpackUnchecked(data) ==
    IF Len(data) < 2 THEN [frameIndex |-> 0, data |-> << >>]
    ELSE [frameIndex |-> data[1], data |-> SubSeq(data, 3, Len(data))]

\* DefaultApplicationLayer.unpack
appUnpack(data) ==
    IF Len(data) < 2 THEN [frameIndex |-> 0, data |-> << >>]
    ELSE IF data[2] # Len(data) - 2 THEN [frameIndex |-> 0, data |-> << >>]
    ELSE [frameIndex |-> data[1], data |-> SubSeq(data, 3, Len(data))]

\* the payloads given to the application layer: the bodies, and payloads
\* around the largest length a byte can hold
AppPayloads == Bodies \cup { [i \in 1..n |-> 7] : n \in {254, 255, 256} }

AppPackInputs ==
    { CallOf("appPack", [data |-> P, frameIndex |-> i])
        : P \in AppPayloads, i \in {0, 1, 127, 255} }

\* the longest enumerated raw message given to unpack
MaxRawLen == 4

AppUnpackInputs ==
    { CallOf("appUnpack", m)
        : m \in UNION { [1..n -> {0, 1, 2, 3, 255}] : n \in 0..MaxRawLen } }

AppPackCall == CodecStep("appPack", appPack(codec.in.data, codec.in.frameIndex))

AppUnpackCall == CodecStep("appUnpack", appUnpack(codec.in))

\* the calls of the two AES operations: plain bodies to encrypt, and their
\* ciphertexts under the configured key to decrypt, each under every key
AesInputs ==
    { CallOf("aesEncrypt", [data |-> P, secretKey |-> K]) : P \in Bodies, K \in Keys }
        \cup { CallOf("aesDecrypt",
                      [data |-> AesEncrypt(P, SecretKey).data, secretKey |-> K])
                 : P \in Bodies, K \in Keys }

AesEncryptCall ==
    CodecStep("aesEncrypt", AesEncrypt(codec.in.data, codec.in.secretKey))

AesDecryptCall ==
    CodecStep("aesDecrypt", AesDecrypt(codec.in.data, codec.in.secretKey))

\* the longest enumerated request and response of the XOR check
MaxXorLen == 3

\* the byte values of those: 0x5A is the mask
XorBytesDrawn == {0, 1, 90, 255}

XorInputs ==
    LET msgs == UNION { [1..n -> XorBytesDrawn] : n \in 0..MaxXorLen }
    IN  { CallOf("checkXorValidation", [requestData |-> q, responseData |-> r])
            : q \in msgs, r \in msgs }

CheckXorCall ==
    CodecStep("checkXorValidation",
              checkXorValidation(codec.in.requestData, codec.in.responseData))

\* A lock ID as the callers pass it: a number, or a string given as the
\* sequence of its characters
NumberId(n) == [isString |-> FALSE, number |-> n, text |-> << >>]

StringId(t) == [isString |-> TRUE, number |-> 0, text |-> t]

Digits == << "0", "1", "2", "3", "4", "5", "6", "7", "8", "9" >>

IsDigit(c) == \E d \in 1..10 : Digits[d] = c

DigitValue(c) == (CHOOSE d \in 1..10 : Digits[d] = c) - 1

\* the decimal digits a string starts with, after its sign
RECURSIVE LeadingDigits(_)
LeadingDigits(t) ==
    IF t = << >> \/ ~IsDigit(Head(t)) THEN << >>
    ELSE << Head(t) >> \o LeadingDigits(Tail(t))

RECURSIVE DecimalValue(_)
DecimalValue(ds) ==
    IF ds = << >> THEN 0
    ELSE 10 * DecimalValue(SubSeq(ds, 1, Len(ds) - 1)) + DigitValue(ds[Len(ds)])

\* parseInt(text, 10): an optional sign and the leading digits; NaN without
\* a digit
parseInt(t) ==
    LET signed == t # << >> /\ Head(t) \in {"-", "+"}
        ds == LeadingDigits(IF signed THEN Tail(t) ELSE t)
    IN  IF ds = << >> THEN [nan |-> TRUE, value |-> 0]
        ELSE [nan |-> FALSE,
              value |-> IF signed /\ Head(t) = "-" THEN -DecimalValue(ds)
                        ELSE DecimalValue(ds)]

\* ids.sort((a, b) => a - b)
RECURSIVE SortAscending(_)
SortAscending(ids) ==
    IF ids = << >> THEN << >>
    ELSE LET rest == SortAscending(Tail(ids))
             smaller == SelectSeq(rest, LAMBDA x : x <= Head(ids))
             larger == SelectSeq(rest, LAMBDA x : x > Head(ids))
         IN  smaller \o << Head(ids) >> \o larger

\* the loop of convertLockIdsToSegments from index i on
RECURSIVE MergeRuns(_, _, _, _, _)
MergeRuns(ids, i, start, end, segments) ==
    IF i > Len(ids) THEN Append(segments, << start, end >>)
    ELSE IF ids[i] = end + 1
         THEN MergeRuns(ids, i + 1, start, ids[i], segments)
         ELSE MergeRuns(ids, i + 1, ids[i], ids[i],
                        Append(segments, << start, end >>))

\* the numbers convertLockIdsToSegments works on: parsed, the positive ones
PositiveIds(lockIds) ==
    LET parsed == [i \in 1..Len(lockIds) |->
                      IF lockIds[i].isString
                      THEN parseInt(lockIds[i].text).value
                      ELSE lockIds[i].number]
    IN  SelectSeq(parsed, LAMBDA id : id > 0)

\* CommandUtils.convertLockIdsToSegments(lockIds)
convertLockIdsToSegments(lockIds) ==
    LET ids == SortAscending(PositiveIds(lockIds))
    IN  IF Len(ids) = 0 THEN << >>
        ELSE MergeRuns(ids, 2, ids[1], ids[1], << >>)

\* the longest enumerated list of lock IDs
MaxIds == 4

\* the lock IDs drawn: numbers and strings, positive or not, parsable or not
LockIdsDrawn ==
    { NumberId(n) : n \in {-1, 0, 1, 2, 4} }
        \cup { StringId(t) : t \in { << "3" >>, << "1", "0" >>, << "x" >>,
                                      << "-", "2" >> } }

SegmentInputs ==
    { CallOf("convertLockIdsToSegments", l)
        : l \in UNION { [1..n -> LockIdsDrawn] : n \in 0..MaxIds } }

SegmentsCall ==
    CodecStep("convertLockIdsToSegments", convertLockIdsToSegments(codec.in))

\* A number of 32 bits is kept as its two halves of 16 bits, hi * 65536 + lo,
\* so that every intermediate value stays below 2^31
Word(hi, lo) == [hi |-> hi, lo |-> lo]

\* number & 0xFF, (number >> 8) & 0xFF, (number >> 16) & 0xFF,
\* (number >> 24) & 0xFF
WordBytes(number) ==
    << number.lo % ByteModulus, (number.lo \div ByteModulus) % ByteModulus,
       number.hi % ByteModulus, (number.hi \div ByteModulus) % ByteModulus >>

\* the segments of one packet
SegmentsPerPacket == 25

\* new Uint8Array([0x0D, currentChunk.length / 8, ...currentChunk])
SegmentPacket(currentChunk) == << 13, Len(currentChunk) \div 8 >> \o currentChunk

\* the loops of convertSegmentsToPackets over the numbers of the segments,
\* from number i on; a chunk of full bytes is emitted at once
RECURSIVE ChunkNumbers(_, _, _, _, _)
ChunkNumbers(numbers, i, currentChunk, packets, full) ==
    IF i > Len(numbers)
    THEN IF Len(currentChunk) > 0
         THEN Append(packets, SegmentPacket(currentChunk))
         ELSE packets
    ELSE LET chunk == currentChunk \o WordBytes(numbers[i])
         IN  IF Len(chunk) >= full
             THEN ChunkNumbers(numbers, i + 1, << >>,
                               Append(packets, SegmentPacket(chunk)), full)
             ELSE ChunkNumbers(numbers, i + 1, chunk, packets, full)

\* start and end of every segment, in order
NumbersOf(segments) ==
    [i \in 1..2 * Len(segments) |-> segments[(i + 1) \div 2][2 - (i % 2)]]

\* a faulty variant of convertSegmentsToPackets, against which C27 is tested:
\* a packet takes one segment more
convertSegmentsOverfull(segments) ==
    ChunkNumbers(NumbersOf(segments), 1, << >>, << >>,
                 (SegmentsPerPacket + 1) * 8)

\* CommandUtils.convertSegmentsToPackets(segments)
convertSegmentsToPackets(segments) ==
    ChunkNumbers(NumbersOf(segments), 1, << >>, << >>, SegmentsPerPacket * 8)

\* the packets that the enumerated segment lists fill at most
MaxPackets == 2

\* the endpoints drawn, over the 32 bits
Endpoints ==
    << Word(0, 0), Word(0, 1), Word(0, 255), Word(0, 256), Word(0, 65535),
       Word(1, 0), Word(32767, 65535), Word(32768, 0), Word(65535, 65535) >>

\* the lengths of the enumerated lists: around every multiple of 25
SegmentCounts ==
    {0, 1, 2} \cup UNION { {SegmentsPerPacket * k - 1, SegmentsPerPacket * k,
                             SegmentsPerPacket * k + 1} : k \in 1..MaxPackets }

\* the list of n segments that walks the endpoints from a and from b
SegmentList(n, a, b) ==
    [i \in 1..n |-> << Endpoints[((a + i) % Len(Endpoints)) + 1],
                       Endpoints[((b + 2 * i) % Len(Endpoints)) + 1] >>]

PacketInputs ==
    { CallOf("convertSegmentsToPackets", SegmentList(n, a, b))
        : n \in SegmentCounts, a \in 0..Len(Endpoints) - 1,
          b \in 0..Len(Endpoints) - 1 }

PacketsCall ==
    CodecStep("convertSegmentsToPackets", convertSegmentsToPackets(codec.in))

\* the 32-bit number w * 10 + dgt, modulo 2^32
TimesTenPlus(w, dgt) ==
    LET lo == w.lo * 10 + dgt
        hi == w.hi * 10 + lo \div 65536
    IN  Word(hi % 65536, lo % 65536)

RECURSIVE Uint32OfDigits(_)
Uint32OfDigits(ds) ==
    IF ds = << >> THEN Word(0, 0)
    ELSE TimesTenPlus(Uint32OfDigits(SubSeq(ds, 1, Len(ds) - 1)),
                      DigitValue(ds[Len(ds)]))

\* the 32-bit two's complement of w
Negated(w) ==
    IF w.lo = 0 THEN Word((65536 - w.hi) % 65536, 0)
    ELSE Word(65535 - w.hi, 65536 - w.lo)

\* parseInt(text, 10) >>> 0: the low 32 bits of the parsed integer, 0 for NaN
parseIntUint32(t) ==
    LET signed == t # << >> /\ Head(t) \in {"-", "+"}
        ds == LeadingDigits(IF signed THEN Tail(t) ELSE t)
    IN  IF signed /\ Head(t) = "-" THEN Negated(Uint32OfDigits(ds))
        ELSE Uint32OfDigits(ds)

\* a faulty variant of lockIdToBytes, against which C29 is tested: the high
\* byte comes first
lockIdToBytesBigEndian(lockId) ==
    LET b == WordBytes(IF lockId.isString THEN parseIntUint32(lockId.text)
                       ELSE lockId.number)
    IN  << b[4], b[3], b[2], b[1] >>

\* CommandUtils.lockIdToBytes(lockId); a number is given by its low 32 bits
lockIdToBytes(lockId) ==
    WordBytes(IF lockId.isString THEN parseIntUint32(lockId.text)
              ELSE lockId.number)

\* CommandUtils.buildUnlockCommand(lockId)
buildUnlockCommand(lockId) ==
    [command |-> "UNLOCK", data |-> << 8, 0 >> \o lockIdToBytes(lockId)]

\* CommandUtils.buildLockCommand(lockId)
buildLockCommand(lockId) ==
    [command |-> "LOCK", data |-> << 8, 2 >> \o lockIdToBytes(lockId)]

\* CommandUtils.buildForceUnlockCommand(lockId)
buildForceUnlockCommand(lockId) ==
    [command |-> "FORCE_UNLOCK", data |-> << 8, 1 >> \o lockIdToBytes(lockId)]

\* CommandUtils.buildForceLockCommand(lockId)
buildForceLockCommand(lockId) ==
    [command |-> "FORCE_LOCK", data |-> << 8, 3 >> \o lockIdToBytes(lockId)]

\* the decimal digits of a 32-bit number, by long division of its halves
RECURSIVE DecimalDigits(_)
DecimalDigits(w) ==
    IF w = Word(0, 0) THEN << >>
    ELSE LET t == (w.hi % 10) * 65536 + w.lo
         IN  DecimalDigits(Word(w.hi \div 10, t \div 10))
                \o << Digits[(t % 10) + 1] >>

\* the decimal string of an unsigned 32-bit number
DecimalOf(w) == IF w = Word(0, 0) THEN << "0" >> ELSE DecimalDigits(w)

\* the lock IDs given to the builders: as numbers and as decimal strings
LockWords ==
    { Endpoints[k] : k \in 1..Len(Endpoints) } \cup { Word(0, 1234), Word(1234, 0) }

LockCommandInputs ==
    { CallOf(fn, id)
        : fn \in {"buildUnlockCommand", "buildLockCommand",
                  "buildForceUnlockCommand", "buildForceLockCommand"},
          id \in { NumberId(w) : w \in LockWords }
                    \cup { StringId(DecimalOf(w)) : w \in LockWords } }

UnlockCall == CodecStep("buildUnlockCommand", buildUnlockCommand(codec.in))

LockCall == CodecStep("buildLockCommand", buildLockCommand(codec.in))

ForceUnlockCall ==
    CodecStep("buildForceUnlockCommand", buildForceUnlockCommand(codec.in))

ForceLockCall ==
    CodecStep("buildForceLockCommand", buildForceLockCommand(codec.in))

\* byte << (i * 8) for i in 0..3: a 32-bit signed result, negative when bit 31
\* is set
ShiftLeft(byte, i) ==
    IF i = 3 /\ byte >= 128 THEN (byte - ByteModulus) * (ByteModulus ^ 3)
    ELSE byte * (ByteModulus ^ i)

\* CommandUtils.uint8ArrayToNumber(array), for the arrays of up to 4 bytes
\* that it is called on
RECURSIVE uint8ArrayToNumber(_)
uint8ArrayToNumber(array) ==
    IF array = << >> THEN 0
    ELSE uint8ArrayToNumber(SubSeq(array, 1, Len(array) - 1))
            + ShiftLeft(array[Len(array)], Len(array) - 1)

\* the digits of the magnitude of a negative number
RECURSIVE DigitsOfNegative(_)
DigitsOfNegative(n) ==
    IF n = 0 THEN << >>
    ELSE LET dgt == (10 - (n % 10)) % 10
         IN  DigitsOfNegative((n + dgt) \div 10) \o << Digits[dgt + 1] >>

\* Number.prototype.toString() of an integer
NumberToString(n) ==
    IF n = 0 THEN << "0" >>
    ELSE IF n < 0 THEN << "-" >> \o DigitsOfNegative(n)
    ELSE DigitsOfNegative(-n)

\* CommandUtils.parseLockState(lockStateValue): the value of the LockState
\* enum
parseLockState(lockStateValue) ==
    IF lockStateValue \in {255, 254, 0, 1, 2, 3, 4, 5} THEN lockStateValue
    ELSE 254

\* CommandUtils.isLockedByState(lockState)
isLockedByState(lockState) == lockState \in {4, 5}

\* CommandUtils.convertBatteryStateToLevel(batteryState)
convertBatteryStateToLevel(batteryState) ==
    CASE batteryState = 0 -> 20
      [] batteryState = 1 -> 60
      [] batteryState = 2 -> 100
      [] batteryState = 3 -> 100
      [] OTHER -> 0

\* what parseDeviceStatusReport returns for the lock state, battery state and
\* lock ID bytes it has picked from the report
StatusReport(command, lockStateValue, batteryStateValue, lockIdBytes) ==
    [threw |-> FALSE,
     command |-> command,
     state |-> parseLockState(lockStateValue),
     isLocked |-> isLockedByState(parseLockState(lockStateValue)),
     batteryLevel |-> convertBatteryStateToLevel(batteryStateValue),
     isConnected |-> ~(\A k \in 1..Len(lockIdBytes) : lockIdBytes[k] = 255),
     lockId |-> NumberToString(uint8ArrayToNumber(lockIdBytes))]

\* parseDeviceStatusReport throws
ReportError ==
    [threw |-> TRUE, command |-> 0, state |-> 254, isLocked |-> FALSE,
     batteryLevel |-> 0, isConnected |-> FALSE, lockId |-> << >>]

\* CommandUtils.parseDeviceStatusReport(data)
parseDeviceStatusReport(data) ==
    IF Len(data) = 0 THEN ReportError
    ELSE CASE data[1] = 7 ->
                IF Len(data) # 7 THEN ReportError
                ELSE StatusReport(7, data[2], data[3], SubSeq(data, 4, 7))
           [] data[1] = 6 ->
                IF Len(data) # 8 THEN ReportError
                ELSE StatusReport(6, data[3], data[4], SubSeq(data, 5, 8))
           [] OTHER -> ReportError

\* the lock-state and battery bytes of the enumerated reports
LockStateBytes == {0, 1, 2, 3, 4, 5, 6, 254, 255}

BatteryBytes == {0, 1, 2, 3, 4, 255}

\* their lock ID bytes
LockIdBytesDrawn ==
    { WordBytes(w) : w \in LockWords } \cup { << 255, 255, 255, 0 >> }

\* status reports of 7 bytes, device-information reports of 8 bytes, and
\* reports that are too short or of another command
ReportInputs ==
    { CallOf("parseDeviceStatusReport", << 7, ls, bs >> \o id)
        : ls \in LockStateBytes, bs \in BatteryBytes, id \in LockIdBytesDrawn }
    \cup { CallOf("parseDeviceStatusReport", << 6, 1, ls, 2 >> \o id)
             : ls \in LockStateBytes, id \in LockIdBytesDrawn }
    \cup { CallOf("parseDeviceStatusReport", x)
             : x \in { << 7, 4, 2, 1, 0, 0 >>, << 6, 1, 4, 2, 1, 0, 0 >>,
                       << 5, 1 >> } }

ReportCall ==
    CodecStep("parseDeviceStatusReport", parseDeviceStatusReport(codec.in))

\* a lock ID is encoded by lockIdToBytes and the bytes are decoded by
\* uint8ArrayToNumber
LockIdEchoInputs ==
    { CallOf("uint8ArrayToNumber", NumberId(w)) : w \in LockWords }

LockIdEchoCall ==
    CodecStep("uint8ArrayToNumber", uint8ArrayToNumber(lockIdToBytes(codec.in)))

InitCodec ==
    /\ InitSession
    /\ wire = << >>
    /\ packed = NoPack
    /\ \/ codec \in TransportPackInputs
       \/ codec \in AppPackInputs
       \/ codec \in AppUnpackInputs
       \/ codec \in AesInputs
       \/ codec \in XorInputs
       \/ codec \in SegmentInputs
       \/ codec \in PacketInputs
       \/ codec \in LockCommandInputs
       \/ codec \in ReportInputs
       \/ codec \in LockIdEchoInputs

NextCodec ==
    \/ TransportPackCall
    \/ AppPackCall
    \/ AppUnpackCall
    \/ AesEncryptCall
    \/ AesDecryptCall
    \/ CheckXorCall
    \/ SegmentsCall
    \/ PacketsCall
    \/ UnlockCall
    \/ LockCall
    \/ ForceUnlockCall
    \/ ForceLockCall
    \/ ReportCall
    \/ LockIdEchoCall

SpecCodec == InitCodec /\ [][NextCodec]_vars

----------------------------------------------------------------------------
(* The transport envelope *)

\* C21: the envelope packed starts with the version and the control byte of
\* the table for its ack type and encryption; when not encrypted the body is
\* the payload as it is
C21_ControlByteTable ==
    Called("transportPack") =>
        LET o == codec.in.options
            enc == o.encryptType = ENCRYPT
            table == [x \in AckTypes |->
                        CASE x = REQUEST_WITHOUT_ACK -> << 244, 252 >>
                          [] x = REQUEST_WITH_ACK -> << 246, 254 >>
                          [] x = ACK -> << 245, 253 >>
                          [] x = NONE -> << 247, 255 >>]
        IN  /\ codec.out[1] = o.version
            /\ codec.out[2] = table[o.ackType][IF enc THEN 2 ELSE 1]
            /\ ~enc => SubSeq(codec.out, 3, Len(codec.out)) = codec.in.data

\* C21: an ACK has been packed without encryption: 01 F5 and the payload
C21_Witness ==
    /\ Called("transportPack")
    /\ codec.in.options.ackType = ACK
    /\ codec.in.options.encryptType = NO_ENCRYPT
    /\ codec.in.data = << 1, 255 >>
    /\ codec.out = << 1, 245, 1, 255 >>

\* the envelope packed decodes, under the key it was packed with, to the ack
\* type, the encryption flag and the payload it was packed from
RoundTripEnvelope ==
    LET o == codec.in.options
        r == transportUnpack(codec.out, o.secretKey)
    IN  /\ ~r.threw
        /\ r.ackType = o.ackType
        /\ r.encryptType = o.encryptType
        /\ r.data = codec.in.data

\* C22: every envelope of version 1 decodes to what it was packed from
C22_EnvelopeRoundTrip ==
    (Called("transportPack") /\ codec.in.options.version = 1) => RoundTripEnvelope

\* C22, for the encrypted envelopes: the same
C22_EncryptedRoundTrip ==
    (/\ Called("transportPack")
     /\ codec.in.options.version = 1
     /\ codec.in.options.encryptType = ENCRYPT) => RoundTripEnvelope

\* C22: an envelope packed as not encrypted has been decoded as encrypted, and
\* not to its payload
C22_Witness ==
    /\ Called("transportPack")
    /\ codec.in.options.version = 1
    /\ codec.in.options.encryptType = NO_ENCRYPT
    /\ codec.in.data = << 1, 255 >>
    /\ transportUnpack(codec.out, codec.in.options.secretKey).encryptType = ENCRYPT
    /\ transportUnpack(codec.out, codec.in.options.secretKey).data # codec.in.data

----------------------------------------------------------------------------
(* The application envelope *)

\* C23: a payload of 1..255 bytes packed with a frame index unpacks to that
\* index and payload; a message shorter than 2 bytes, or whose second byte is
\* not its length minus 2, unpacks to an empty payload
C23_AppRoundTrip ==
    /\ (Called("appPack") /\ Len(codec.in.data) \in 1..255) =>
          appUnpack(codec.out) =
              [frameIndex |-> codec.in.frameIndex, data |-> codec.in.data]
    /\ (Called("appUnpack")
            /\ (Len(codec.in) < 2 \/ codec.in[2] # Len(codec.in) - 2)) =>
          codec.out.data = << >>

\* C23: a payload of 255 bytes has been packed with frame index 255; the
\* length byte is 255 and the message unpacks to the payload
C23_Witness ==
    /\ Called("appPack")
    /\ Len(codec.in.data) = 255
    /\ codec.in.frameIndex = 255
    /\ codec.out[2] = 255
    /\ appUnpack(codec.out).data = codec.in.data

----------------------------------------------------------------------------
(* The AES key *)

\* key is secretKey cut to 16 bytes, or filled up to 16 bytes with zeros
SixteenOf(secretKey, key) ==
    /\ Len(key) = 16
    /\ \A i \in 1..16 :
          key[i] = IF i <= Len(secretKey) THEN secretKey[i] ELSE 0

\* C24: every AES encryption and decryption runs under a key of exactly 16
\* bytes: the session key cut to its first 16 bytes, or padded with zeros
C24_KeyIsSixteenBytes ==
    (Called("aesEncrypt") \/ Called("aesDecrypt")) =>
        SixteenOf(codec.in.secretKey, codec.out.key)

\* C24: a one-byte key fragment has been used for a decryption, padded with
\* 15 zero bytes
C24_Witness ==
    /\ Called("aesDecrypt")
    /\ codec.in.secretKey = << 17 >>
    /\ codec.out.key = << 17, 0, 0, 0, 0, 0, 0, 0, 0, 0, 0, 0, 0, 0, 0, 0 >>

----------------------------------------------------------------------------
(* The XOR check of the CONNECT acknowledgement *)

\* b with the bits of 0x5A (2, 8, 16 and 64) inverted
Flip5A(b) ==
    b + (IF (b \div 2) % 2 = 1 THEN -2 ELSE 2)
      + (IF (b \div 8) % 2 = 1 THEN -8 ELSE 8)
      + (IF (b \div 16) % 2 = 1 THEN -16 ELSE 16)
      + (IF (b \div 64) % 2 = 1 THEN -64 ELSE 64)

\* the response has the command byte of the request and a body that is the
\* body of the request with every byte XOR 0x5A
IsXorEcho(q, r) ==
    /\ Len(q) >= 1
    /\ Len(r) >= 1
    /\ r[1] = q[1]
    /\ Len(r) = Len(q)
    /\ \A i \in 2..Len(q) : r[i] = Flip5A(q[i])

\* C25: checkXorValidation accepts exactly the responses that echo the
\* command byte and carry the request body XOR 0x5A, and rejects an accepted
\* response as soon as one of its bytes is changed
C25_XorAcceptsExactly ==
    Called("checkXorValidation") =>
        LET q == codec.in.requestData
            r == codec.in.responseData
        IN  /\ codec.out = IsXorEcho(q, r)
            /\ codec.out =>
                  \A i \in 1..Len(r) : \A v \in 0..255 :
                      v # r[i] => ~checkXorValidation(q, [r EXCEPT ![i] = v])

\* C25: the response 01 00 5A to the request 01 5A 00 has been accepted
C25_Witness ==
    /\ Called("checkXorValidation")
    /\ codec.in.requestData = << 1, 90, 0 >>
    /\ codec.in.responseData = << 1, 0, 90 >>
    /\ codec.out

----------------------------------------------------------------------------
(* The segment encoder *)

\* the distinct positive IDs of a list
PositiveIdSet(lockIds) ==
    { PositiveIds(lockIds)[i] : i \in 1..Len(PositiveIds(lockIds)) }

\* the IDs the segments cover
Expansion(segments) ==
    UNION { segments[i][1]..segments[i][2] : i \in 1..Len(segments) }

\* the segments cover exactly the distinct positive IDs of the list
CoversPositiveIds ==
    /\ \A i \in 1..Len(codec.out) : codec.out[i][1] <= codec.out[i][2]
    /\ Expansion(codec.out) = PositiveIdSet(codec.in)

\* the segments ascend, and no two of them overlap or touch
DisjointMaximal ==
    \A i \in 1..Len(codec.out) - 1 :
        codec.out[i][2] + 1 < codec.out[i + 1][1]

\* C26: the segments of every list of lock IDs are sorted ascending, pairwise
\* disjoint and maximal, and cover exactly the distinct positive IDs
C26_SegmentsDisjointMaximal ==
    Called("convertLockIdsToSegments") => CoversPositiveIds /\ DisjointMaximal

\* C26, for the lists without a repeated positive ID: the same
C26_DistinctIdsDisjointMaximal ==
    (/\ Called("convertLockIdsToSegments")
     /\ Cardinality(PositiveIdSet(codec.in)) = Len(PositiveIds(codec.in)))
        => CoversPositiveIds /\ DisjointMaximal

\* C26, the part that holds for every list: the segments ascend and cover
\* exactly the distinct positive IDs
C26_SegmentsCoverIds ==
    Called("convertLockIdsToSegments") =>
        /\ CoversPositiveIds
        /\ \A i \in 1..Len(codec.out) - 1 :
              codec.out[i][1] <= codec.out[i + 1][1]

\* C26: the list 4, 4 has been converted to the segment [4,4] twice
C26_Witness ==
    /\ Called("convertLockIdsToSegments")
    /\ codec.in = << NumberId(4), NumberId(4) >>
    /\ codec.out = << << 4, 4 >>, << 4, 4 >> >>

----------------------------------------------------------------------------
(* The segment packets *)

\* the unsigned value of the four little-endian bytes of p from offset at
WordAt(p, at) ==
    Word(p[at + 2] + 256 * p[at + 3], p[at] + 256 * p[at + 1])

\* the segments a packet carries, read by its count byte
SegmentsIn(p) ==
    [j \in 1..p[2] |-> << WordAt(p, 8 * j - 5), WordAt(p, 8 * j - 1) >>]

RECURSIVE DecodePackets(_)
DecodePackets(packets) ==
    IF packets = << >> THEN << >>
    ELSE SegmentsIn(Head(packets)) \o DecodePackets(Tail(packets))

\* opcode 0x0D, a count of 1..25, and count * 8 bytes
PacketShape(p) ==
    /\ Len(p) >= 2
    /\ p[1] = 13
    /\ p[2] \in 1..25
    /\ Len(p) = 2 + 8 * p[2]
    /\ \A k \in 1..Len(p) : p[k] \in 0..255

\* C27: n segments give ceil(n/25) packets of the shape [0x0D, count,
\* count * 8 bytes], all but the last of 25 segments, which decode to the
\* input list; no segment gives no packet
C27_PacketsRoundTrip ==
    Called("convertSegmentsToPackets") =>
        /\ Len(codec.out) = (Len(codec.in) + 24) \div 25
        /\ \A k \in 1..Len(codec.out) : PacketShape(codec.out[k])
        /\ \A k \in 1..Len(codec.out) - 1 : codec.out[k][2] = 25
        /\ DecodePackets(codec.out) = codec.in
        /\ codec.in = << >> => codec.out = << >>

\* C27: 26 segments with endpoints up to 2^32 - 1 have been packed into a
\* packet of 25 and a packet of 1
C27_Witness ==
    /\ Called("convertSegmentsToPackets")
    /\ Len(codec.in) = 26
    /\ codec.in[1] = << Word(65535, 65535), Word(0, 1) >>
    /\ Len(codec.out) = 2
    /\ codec.out[1][2] = 25
    /\ codec.out[2][2] = 1

----------------------------------------------------------------------------
(* Isolation of the connections *)

\* the session state of a device: its frame index counter, session key,
\* receive buffer, pending waiters and authentication state
SessionState(d) ==
    << frameIndexes[d], dynamicKeys[d], dataBuffers[d], pendingFrameResponses[d],
       authStatusMap[d], authPromises[d] >>

\* C28: every operation and inbound event of one device leaves the frame
\* index counter, session key, receive buffer, pending waiters and
\* authentication state of the other device unchanged
C28_DevicesIsolated ==
    [][\A d \in Devices : StepOf(d) =>
            \A o \in Devices \ {d} : SessionState(o)' = SessionState(o)]_vars

\* C28: device A has been disconnected and its entries are gone, while
\* device B is authenticated with its key, a frame index that has advanced, a
\* waiter pending and the head of a frame in its buffer
C28_Witness ==
    /\ connections["A"] = NoConnection
    /\ frameIndexes["A"] = Absent
    /\ authStatusMap["B"] = "true"
    /\ dynamicKeys["B"].has
    /\ frameIndexes["B"] = 2
    /\ pendingFrameResponses["B"].map # { }
    /\ dataBuffers["B"].v = OpenHead

----------------------------------------------------------------------------
(* The lock and unlock commands *)

\* the sub-operation of each builder
SubOpOf(fn) ==
    CASE fn = "buildUnlockCommand" -> 0
      [] fn = "buildForceUnlockCommand" -> 1
      [] fn = "buildLockCommand" -> 2
      [] fn = "buildForceLockCommand" -> 3

\* C29: for a lock ID in 0..2^32 - 1, given as a number or as its decimal
\* string, the four builders produce 0x08, the sub-operation 0, 1, 2 or 3 of
\* the builder, and the four little-endian bytes of the ID
C29_LockCommandLayout ==
    \A fn \in {"buildUnlockCommand", "buildForceUnlockCommand",
               "buildLockCommand", "buildForceLockCommand"} :
        Called(fn) =>
            /\ Len(codec.out.data) = 6
            /\ codec.out.data[1] = 8
            /\ codec.out.data[2] = SubOpOf(fn)
            /\ \A k \in 3..6 : codec.out.data[k] \in 0..255
            /\ IF codec.in.isString
               THEN DecimalOf(WordAt(codec.out.data, 3)) = codec.in.text
               ELSE WordAt(codec.out.data, 3) = codec.in.number
            /\ codec.in.text = << "1", "2", "3", "4" >> =>
                    SubSeq(codec.out.data, 3, 6) = << 210, 4, 0, 0 >>

\* C29: buildUnlockCommand("1234") has given 08 00 D2 04 00 00
C29_Witness ==
    /\ Called("buildUnlockCommand")
    /\ codec.in = StringId(<< "1", "2", "3", "4" >>)
    /\ codec.out.data = << 8, 0, 210, 4, 0, 0 >>

----------------------------------------------------------------------------
(* The status report *)

\* a 7-byte UPLOAD_STATUS report has been parsed
StatusParsed ==
    /\ Called("parseDeviceStatusReport")
    /\ Len(codec.in) = 7
    /\ codec.in[1] = 7

\* isLocked, batteryLevel and isConnected are as the claim says
FlagsAndBattery ==
    /\ ~codec.out.threw
    /\ codec.out.isLocked <=> codec.in[2] \in {4, 5}
    /\ codec.in[3] \in 0..3 =>
            codec.out.batteryLevel = << 20, 60, 100, 100 >>[codec.in[3] + 1]
    /\ ~codec.out.isConnected <=> \A k \in 4..7 : codec.in[k] = 255

\* lockId is the decimal string of the unsigned little-endian value
UnsignedLockId == codec.out.lockId = DecimalOf(WordAt(codec.in, 4))

\* C30: of a 7-byte UPLOAD_STATUS report, isLocked is true exactly for the
\* lock states 4 and 5, batteryLevel is 20, 60, 100, 100 for the battery
\* bytes 0, 1, 2, 3, lockId is the decimal string of the unsigned value of the
\* four little-endian bytes, isConnected is false exactly when they are all
\* 0xFF
C30_StatusReportFields == StatusParsed => FlagsAndBattery /\ UnsignedLockId

\* C30, for the lock IDs below 2^31: the same
C30_StatusReportFieldsBelow2G ==
    (StatusParsed /\ codec.in[7] < 128) => FlagsAndBattery /\ UnsignedLockId

\* C30, without the lock ID: the flags and the battery level of every report
C30_FlagsAndBattery == StatusParsed => FlagsAndBattery

\* C30: the report of a locked lock with the ID 2^31 has been parsed to the
\* lockId "-2147483648"
C30_Witness ==
    /\ StatusParsed
    /\ codec.in = << 7, 5, 2, 0, 0, 0, 128 >>
    /\ codec.out.isLocked
    /\ codec.out.lockId = << "-", "2", "1", "4", "7", "4", "8", "3", "6", "4", "8" >>

----------------------------------------------------------------------------
(* Lock IDs through lockIdToBytes and uint8ArrayToNumber *)

\* the decoded number is the lock ID that was encoded
DecodesToLockId ==
    /\ codec.out >= 0
    /\ codec.out % 65536 = codec.in.number.lo
    /\ codec.out \div 65536 = codec.in.number.hi

\* C40: for every lock ID n in 0..2^32 - 1, uint8ArrayToNumber of the four
\* bytes lockIdToBytes(n) is n, a non-negative integer
C40_LockIdDecodesToItself == Called("uint8ArrayToNumber") => DecodesToLockId

\* C40, for the lock IDs below 2^31: the same
C40_LockIdBelow2GDecodesToItself ==
    (Called("uint8ArrayToNumber") /\ codec.in.number.hi < 32768)
        => DecodesToLockId

\* C40: the lock ID 2^32 - 1 has been decoded to -1
C40_Witness ==
    /\ Called("uint8ArrayToNumber")
    /\ codec.in = NumberId(Word(65535, 65535))
    /\ codec.out = -1

----------------------------------------------------------------------------
(* The replies of the handshake *)

\* the reply the handshake owes to the device message m
HandshakeReplyData(m) ==
    IF m.data[1] = 2
    THEN << 2 >> \o [i \in 1..Len(m.data) - 1 |-> Flip5A(m.data[i + 1])]
    ELSE m.data

\* the handshake messages the peer may send now: notifications are on and no
\* reply to an earlier handshake message is being written
HandshakeFrames(d) ==
    IF inflight[d] # 0 \/ link[d] # "notifying" THEN { }
    ELSE { m \in InboundFrames(d) :
             m.ackType = REQUEST_WITH_ACK /\ m.data[1] \in {2, 3, 4} }

\* C31: the reply written for a handshake message has ack type ACK, the frame
\* index of the message, and as data 0x02 with the challenge body XOR 0x5A
\* for step 0x02, the message itself for the steps 0x03 and 0x04
C31_HandshakeReplies ==
    [][\A d \in Devices : \A m \in HandshakeFrames(d) :
            ReceiveAuth(d, m) =>
                /\ Len(written') = 1
                /\ written'[1].deviceId = d
                /\ written'[1].ackType = ACK
                /\ written'[1].frameIndex = m.frameIndex
                /\ written'[1].data = HandshakeReplyData(m)]_vars

\* C31: the challenge 02 11 22 has been answered with 02 4B 78 on the frame
\* index of the device
C31_Witness ==
    /\ inflight["A"] = 2
    /\ Len(written) = 1
    /\ written[1].ackType = ACK
    /\ written[1].frameIndex \in DevFrameIdx
    /\ written[1].data = << 2, 75, 120 >>

----------------------------------------------------------------------------
(* SpecNoise: noise followed by one well-formed frame, delivered in chunks of
   any size; the notifications follow one another within the 200 ms of the
   idle timer, which fires once the stream has ended *)

\* the noise pieces drawn before the frame at most
MaxNoise == 2

\* noise: single bytes, a bare header, headers that announce 2, 9 and 65535
\* bytes, and a frame with a wrong checksum
NoisePieces ==
    { << 0 >>, << 165 >>, header, header \o intToLittleEndian(2, 2), OpenHead,
      header \o << 255, 255 >>, Corrupt(EmptyFrame) }

NoiseFrames == { EmptyFrame, pack(<< 7 >>) }

NoiseStreams ==
    { Concat(ps) \o f
        : ps \in UNION { SeqsOfLen(NoisePieces, n) : n \in 0..MaxNoise },
          f \in NoiseFrames }

InitNoise ==
    /\ InitSession
    /\ wire \in NoiseStreams
    /\ packed = NoPack
    /\ codec = NoCall

NextNoise ==
    \/ \E d \in Active : \E n \in 1..Len(wire) : NotifyBytes(d, n)
    \/ \E d \in Active : wire = << >> /\ IdleTimeout(d)

SpecNoise == InitNoise /\ [][NextNoise]_vars /\ WF_vars(NextNoise)

\* the stream: the bytes delivered and those still to come
Whole == arrived \o wire

\* the stream ends with the frame f
EndsWith(f) ==
    /\ Len(Whole) >= Len(f)
    /\ SubSeq(Whole, Len(Whole) - Len(f) + 1, Len(Whole)) = f

\* the frame f at the end of the stream has been dispatched
DispatchedAtEnd(f) ==
    \E k \in 1..Len(dispatched) :
        /\ dispatched[k].bytes = f
        /\ dispatched[k].at = Len(Whole) - Len(f)

\* no header before the frame announces more bytes than the stream holds
NothingOpen ==
    \A k \in visits(Whole, 0) : scanStep(Whole, k) # "wait"

\* C32: a well-formed frame that follows noise is eventually dispatched
C32_FrameEventuallyDispatched ==
    \A f \in NoiseFrames : EndsWith(f) ~> DispatchedAtEnd(f)

\* C32, for noise in which no header announces more bytes than the stream
\* holds: the same
C32_FrameDispatchedAfterClosedNoise ==
    \A f \in NoiseFrames : (EndsWith(f) /\ NothingOpen) ~> DispatchedAtEnd(f)

\* C32: noise and bytes of a frame never reach a sendCommand caller
C32_NoiseNeverSurfaces ==
    /\ returned = { }
    /\ \A c \in CallIds : calls[c] = FreeCall

\* C32: a header announcing 9 bytes and a complete frame behind it have
\* arrived, the idle timer has emptied the buffer, and the frame was never
\* dispatched
C32_Witness ==
    /\ wire = << >>
    /\ arrived = OpenHead \o EmptyFrame
    /\ flushed
    /\ \A d \in Active : dataBuffers[d].v = << >>
    /\ dispatched = << >>

----------------------------------------------------------------------------
(* SpecChunk: the frames of one notification chunk, from their bytes on.
   _processBufferedFrames calls _processPhysicalFrame for every frame of the
   chunk without awaiting it: each call runs up to its await of
   transportLayer.unpack, with the key it has read, and the continuations run
   afterwards, in the order of the frames *)

\* what the peer puts into a physical frame: a message as it should be
\* ("frame"), or one that a decode layer above the framing refuses
MalformedKinds == {"badVersion", "shortTransport", "badLength", "emptyApp"}

Sent(kind, m) ==
    [kind |-> kind, ackType |-> m.ackType, frameIndex |-> m.frameIndex,
     data |-> m.data, key |-> m.key]

\* the options of the peer's transport layer for the message
PeerOptions(s, version) ==
    [version |-> version, ackType |-> s.ackType, encryptType |-> ENCRYPT,
     secretKey |-> s.key]

\* the transport packet the peer builds: the message; the message under
\* version 3; a packet of one byte; an application packet whose length byte is
\* not the length of its payload; an application packet without payload
PayloadFor(s) ==
    CASE s.kind = "frame" ->
            transportPack(appPack(s.data, s.frameIndex), PeerOptions(s, 1))
      [] s.kind = "badVersion" ->
            transportPack(appPack(s.data, s.frameIndex), PeerOptions(s, 3))
      [] s.kind = "shortTransport" -> << 1 >>
      [] s.kind = "badLength" ->
            transportPack(<< s.frameIndex, Len(s.data) + 3 >> \o s.data,
                          PeerOptions(s, 1))
      [] s.kind = "emptyApp" ->
            transportPack(<< s.frameIndex, 0 >>, PeerOptions(s, 1))

\* the bytes of a chunk: the physical frames of its packets, one after another
RECURSIVE ChunkBytes(_)
ChunkBytes(ch) ==
    IF ch = << >> THEN << >>
    ELSE pack(PayloadFor(Head(ch))) \o ChunkBytes(Tail(ch))

\* the messages the peer sends in this specification: its answers and its
\* handshake requests in their order, under the session key
ChunkFrames(d) ==
    { m \in InboundFrames(d) :
        /\ m.key = dynamicKeys[d].v
        /\ GoodConnectAck(d, m)
        /\ m.ackType = REQUEST_WITH_ACK =>
              /\ ~isDeviceReport(m.data)
              /\ m.data[1] \in {2, 3, 4}
              /\ InOrder(d, m)
              /\ inflight[d] = 0 }

\* the one-frame chunks: a message, or a malformed variant of an
\* acknowledgement
SingleChunks(d) ==
    { << Sent("frame", m) >> : m \in ChunkFrames(d) }
        \cup { << Sent(k, m) >> :
                  k \in MalformedKinds,
                  m \in { x \in ChunkFrames(d) : x.ackType = ACK } }

\* the two-frame chunks: a handshake request that sets a new key, followed by
\* an acknowledgement encrypted under that key; or two acknowledgements
PairChunks(d) ==
    { << Sent("frame", m), Sent("frame", [n EXCEPT !.key = Tail(m.data)]) >> :
          m \in { x \in ChunkFrames(d) :
                    x.ackType = REQUEST_WITH_ACK /\ x.data[1] \in {3, 4} },
          n \in { x \in ChunkFrames(d) : x.ackType = ACK } }
        \cup { << Sent("frame", m), Sent("frame", n) >> :
                  m \in { x \in ChunkFrames(d) : x.ackType = ACK },
                  n \in { x \in ChunkFrames(d) :
                            x.ackType = ACK /\ x.frameIndex = 99 } }

Chunks(d) == SingleChunks(d) \cup PairChunks(d)

\* handleReceivedData for a notification that carries the frames of ch:
\* every extracted frame is given to _processPhysicalFrame, which reads the
\* session key and calls transportLayer.unpack with it
NotifyChunk(d, ch) ==
    LET r == unpackWithRemain(dataBuffers[d].v \o ChunkBytes(ch))
        key == dynamicKeys[d].v
    IN
    /\ Quiet
    /\ link[d] = "notifying"
    /\ dataBuffers[d].has
    /\ frameQ[d] = << >>
    /\ Len(r.frames) = Len(ch)
    /\ frameQ' = [frameQ EXCEPT ![d] =
            [i \in 1..Len(ch) |->
                [sent |-> ch[i], used |-> key,
                 t |-> transportUnpack(payloadOf(r.frames[i]), key)]]]
    /\ dataBuffers' = [dataBuffers EXCEPT ![d] = [has |-> TRUE, v |-> r.remain]]
    /\ receivingTimeoutTimers' = [receivingTimeoutTimers EXCEPT ![d] = "armed"]
    /\ returned' = { }
    /\ written' = << >>
    /\ emitted' = << >>
    /\ UNCHANGED << link, cbPending, connections, frameIndexes, dynamicKeys,
                    pendingFrameResponses, authPromises, authTimers, authStatusMap,
                    disconnectingDevices, calls, connCall, discCall, inflight,
                    microQ, authProg, expired, keptVars, handled >>

\* _processPhysicalFrame returns without a change, after the event of its
\* catch block (an error) or without one
FrameDropped(events) ==
    /\ returned' = { }
    /\ written' = << >>
    /\ emitted' = events
    /\ UNCHANGED << link, cbPending, connections, frameIndexes, dynamicKeys,
                    dataBuffers, receivingTimeoutTimers, pendingFrameResponses,
                    authPromises, authTimers, authStatusMap, disconnectingDevices,
                    calls, connCall, discCall, inflight, microQ, authProg,
                    expired >>

\* what becomes of a frame whose transport packet decoded to t and whose
\* application packet decoded to a
Outcome(d, t, a) ==
    IF t.threw THEN "error"
    ELSE IF t.data = << >> \/ a.data = << >> THEN "dropped"
    ELSE IF t.ackType \in {REQUEST_WITHOUT_ACK, NONE} THEN "logged"
    ELSE IF t.ackType = REQUEST_WITH_ACK /\ isDeviceReport(a.data) THEN "report"
    ELSE IF t.ackType = REQUEST_WITH_ACK /\ a.data[1] \in {2, 3, 4} THEN "replied"
    ELSE IF pendingFrameResponses[d].has /\ WaiterAt(d, a.frameIndex) # { }
         THEN "delivered"
    ELSE IF Unregistered(d, a.frameIndex, a.data) # { } THEN "early"
    ELSE "unmatched"

\* _processPhysicalFrame resumes for the oldest frame of the device after
\* transportLayer.unpack: the promise rejected (catch block), or the packet
\* is refused by the transport or the application layer (return), or
\* handleApplicationData runs
Continue(d) ==
    /\ frameQ[d] # << >>
    /\ LET e == Head(frameQ[d])
           a == appUnpack(e.t.data)
           m == [ackType |-> e.t.ackType, frameIndex |-> a.frameIndex,
                 data |-> a.data, key |-> e.used]
       IN  /\ handled' = [handled EXCEPT ![d] =
                   [kind |-> e.sent.kind, frameIndex |-> e.sent.frameIndex,
                    out |-> Outcome(d, e.t, a)]]
           /\ IF e.t.threw
              THEN FrameDropped(<< [type |-> "error", deviceId |-> d] >>)
              ELSE IF e.t.data = << >> \/ a.data = << >>
              THEN FrameDropped(<< >>)
              ELSE \/ HandleAck(d, m)
                   \/ HandleReport(d, m)
                   \/ HandleAuth(d, m)
                   \/ HandleRequest(d, m)
                   \/ /\ m.ackType \in {REQUEST_WITHOUT_ACK, NONE}
                      /\ HandleIgnored(d)
    /\ frameQ' = [frameQ EXCEPT ![d] = Tail(@)]
    /\ UNCHANGED keptVars

\* no continuation of _processPhysicalFrame is pending: the event loop may
\* run the next task
Drained == \A d \in Devices : frameQ[d] = << >>

\* the caller's commands of this specification
ChunkCommands ==
    { uc \in UserCommands :
        uc.cmd.command = "TIME_SYNC" /\ uc.ackType = REQUEST_WITH_ACK }

NextChunk ==
    \/ \E d \in Active :
            Drained /\ CallerRuns /\ connCall[d].attempt = 0 /\ ConnectCall(d)
    \/ \E d \in Active : Drained /\ ConnectDone(d, TRUE)
    \/ \E d \in Active : Drained /\ DiscoverDone(d, TRUE)
    \/ \E d \in Active, nonce \in Nonces : Drained /\ SessionInit(d, nonce)
    \/ \E d \in Active, uc \in ChunkCommands :
            /\ Drained /\ CallerRuns
            /\ dynamicKeys[d].has /\ frameIndexes[d] < MaxIdx
            /\ UserSend(d, 1, uc)
    \/ Drained /\ BuildDone
    \/ \E c \in CallIds : Drained /\ WriteDone(c, TRUE)
    \/ \E d \in Active : Drained /\ InflightDone(d, TRUE)
    \/ \E d \in Active : \E ch \in Chunks(d) : NotifyChunk(d, ch)
    \/ \E d \in Active : Continue(d)

SpecChunk == Init /\ [][NextChunk]_vars

----------------------------------------------------------------------------
(* C33: a frame that a decode layer above the framing refuses *)

\* the oldest frame of d awaiting its continuation is one of the malformed
\* packets
MalformedNext(d) ==
    /\ frameQ[d] # << >>
    /\ Head(frameQ[d]).sent.kind \in MalformedKinds

\* C33: an inbound frame whose transport version byte is not 1, whose
\* transport payload has fewer than 2 bytes, whose application length byte
\* differs from the length of its payload, or whose application payload is
\* empty, is dropped: no waiter is resolved, no reply is written, and the
\* frameIndex counter, the session key and the authentication state of the
\* device stay as they were
C33_UndecodableFrameDropped ==
    [][\A d \in Devices :
          (MalformedNext(d) /\ Continue(d)) =>
              /\ returned' = { }
              /\ written' = << >>
              /\ pendingFrameResponses' = pendingFrameResponses
              /\ calls' = calls
              /\ frameIndexes' = frameIndexes
              /\ dynamicKeys' = dynamicKeys
              /\ authStatusMap' = authStatusMap
              /\ authPromises' = authPromises
              /\ authTimers' = authTimers
              /\ connCall' = connCall]_vars

\* a packet whose application length byte is wrong, sent on the frame index
\* of a waiting command, has been dropped, and the command still waits
C33_Witness ==
    \E d \in Active :
        /\ handled[d].kind = "badLength"
        /\ handled[d].out = "dropped"
        /\ << handled[d].frameIndex, << "u", d, 1 >> >> \in pendingFrameResponses[d].map
        /\ calls[<< "u", d, 1 >>].pc = "waiting"

----------------------------------------------------------------------------
(* C35: a response that arrives before the write has returned *)

\* C35: a response is never lost to the order of write completion and waiter
\* registration: no matching response on the frame index of a request whose
\* write has been issued is dispatched without reaching the sendCommand call
C35_ResponseNeverLost ==
    \A d \in Devices : handled[d].out # "early"

\* the part of C35 that the code keeps: a response dispatched while a waiter
\* is registered at its frame index ends that call, and not in a timeout
C35_ResponseAfterRegistration ==
    [][\A d \in Devices :
          (Continue(d) /\ handled'[d].out = "delivered") =>
              \E r \in returned' :
                  /\ << handled'[d].frameIndex, r.call >> \in pendingFrameResponses[d].map
                  /\ r.res \in {"ok", "invalid"}]_vars

\* the caller's command has registered its waiter and waits for its timeout:
\* the answer to it was dispatched while the write was still in progress, and
\* found no waiter
C35_Witness ==
    \E d \in Active :
        /\ handled[d].kind = "frame"
        /\ handled[d].out = "early"
        /\ calls[<< "u", d, 1 >>].pc = "waiting"
        /\ calls[<< "u", d, 1 >>].fi = handled[d].frameIndex
        /\ << handled[d].frameIndex, << "u", d, 1 >> >> \in pendingFrameResponses[d].map

----------------------------------------------------------------------------
(* C38: the frames of one device and the session key *)

\* C38: a session-key change made by an earlier frame is in effect when a
\* later frame is decrypted, also when both frames come in one notification
\* chunk: every frame whose handling has yet to run was decrypted under the
\* session key now in effect
C38_KeyChangeInEffect ==
    \A d \in Devices : \A i \in 1..Len(frameQ[d]) :
        frameQ[d][i].used = dynamicKeys[d].v

\* the part of C38 that the code keeps: a well-formed frame encrypted under
\* the key the session held when its notification arrived is decoded, and
\* the frames of a chunk are continued in their order
C38_FrameUnderArrivalKeyDecodes ==
    [][\A d \in Devices :
          (/\ Continue(d)
           /\ Head(frameQ[d]).sent.kind = "frame"
           /\ Head(frameQ[d]).sent.key = Head(frameQ[d]).used) =>
              /\ handled'[d].out \notin {"dropped", "error"}
              /\ frameQ'[d] = Tail(frameQ[d])]_vars

\* the handshake request that sets a new key has been answered, and the next
\* frame of the same chunk, which the peer encrypted under the new key, was
\* decrypted under the old one and no longer holds the peer's message
C38_Witness ==
    \E d \in Active :
        /\ handled[d].out = "replied"
        /\ frameQ[d] # << >>
        /\ LET e == Head(frameQ[d]) IN
           /\ e.sent.kind = "frame"
           /\ e.sent.key = dynamicKeys[d].v
           /\ e.used # dynamicKeys[d].v
           /\ \/ e.t.threw
              \/ appUnpack(e.t.data) #
                    [frameIndex |-> e.sent.frameIndex, data |-> e.sent.data]

----------------------------------------------------------------------------
(* C34: which sendCommand calls register a waiter *)

\* the command name contains READ or GET
ReadOrGetName(name) == name \in {"READ_DEVICE_INFO"}

\* call c is registered at its frame index in the device's waiter map
RegisteredNext(c) ==
    /\ pendingFrameResponses'[c[2]].has
    /\ << calls[c].fi, c >> \in pendingFrameResponses'[c[2]].map
    /\ calls'[c].pc = "waiting"
    /\ returned' = { }

\* call c returns success at once, the waiter maps as they were
ReturnsAtOnce(c) ==
    /\ returned' = { DoneCall(c, "ok", << >>) }
    /\ pendingFrameResponses' = pendingFrameResponses

\* C34: when the write of a sendCommand call has succeeded, the call registers
\* a waiter exactly when its ack type is REQUEST_WITH_ACK, or REQUEST_WITHOUT_ACK
\* with a read-class command; for ACK, NONE and a REQUEST_WITHOUT_ACK command
\* that is not read-class it returns success with the waiter maps unchanged
C34_WaiterOnlyWhenAwaited ==
    [][\A c \in CallIds :
          c[1] = "u" /\ WriteDone(c, TRUE) =>
              IF \/ calls[c].ackType = REQUEST_WITH_ACK
                 \/ /\ calls[c].ackType = REQUEST_WITHOUT_ACK
                    /\ ReadOrGetName(calls[c].command)
              THEN RegisteredNext(c)
              ELSE ReturnsAtOnce(c)]_vars

\* a command that awaits no response has returned success right after its
\* write, and no waiter is registered
C34_Witness ==
    \E d \in Active :
        /\ DoneCall(<< "u", d, 1 >>, "ok", << >>) \in returned
        /\ pendingFrameResponses[d].map = { }
        /\ written = << >>
        /\ frameIndexes[d] > 0

----------------------------------------------------------------------------
(* C39: a REQUEST_WITH_ACK command whose write fails *)

\* C39: when the write of a REQUEST_WITH_ACK command fails, sendCommand
\* returns the failure, registers no waiter, and the device's frameIndex
\* counter has the value it had when the call began
C39_FailedWriteKeepsCounter ==
    [][\A c \in CallIds :
          (/\ c[1] = "u"
           /\ calls[c].ackType = REQUEST_WITH_ACK
           /\ WriteDone(c, FALSE)) =>
              /\ returned' = { FailedCall(c, "writeFail") }
              /\ pendingFrameResponses' = pendingFrameResponses
              /\ frameIndexes'[c[2]] = calls[c].fi]_vars

\* the part of C39 that the code keeps: the failure is returned and no waiter
\* is registered
C39_FailedWriteNoWaiter ==
    [][\A c \in CallIds :
          (/\ c[1] = "u"
           /\ calls[c].ackType = REQUEST_WITH_ACK
           /\ WriteDone(c, FALSE)) =>
              /\ returned' = { FailedCall(c, "writeFail") }
              /\ pendingFrameResponses' = pendingFrameResponses]_vars

\* the first command of the session (frame index 1, after CONNECT on index
\* 0) has returned its write failure, no call is open, and the counter
\* stands at 2
C39_Witness ==
    \E d \in Active :
        /\ returned = { FailedCall(<< "u", d, 1 >>, "writeFail") }
        /\ \A c \in CallsOf(d) : calls[c].pc = "free"
        /\ Resolved(d)
        /\ isDeviceConnected(d)
        /\ frameIndexes[d] = 2

----------------------------------------------------------------------------
(* C36: the authentication timer and the attempts that have settled *)

\* the connect attempts of d that have settled: every earlier attempt, and the
\* current one once connectToDevice has resolved or rejected
SettledAttempts(d) ==
    { n \in 1..MaxAttempts :
        \/ n < connCall[d].attempt
        \/ n = connCall[d].attempt /\ connCall[d].pc \in {"resolved", "rejected"} }

\* C36: once a connect attempt has settled, no authentication timer of that
\* attempt remains armed
C36_SettledAttemptDisarmed ==
    \A d \in Devices : authTimers[d] \cap SettledAttempts(d) = { }

\* C36, second half: the timer of an earlier attempt never removes the
\* authentication future nor changes the authentication status of a later
\* attempt
C36_StaleTimerHarmless ==
    [][\A d \in Devices :
          (AuthTimeout(d) /\ OldestAuthTimer(d) < connCall[d].attempt) =>
              /\ authPromises'[d] = authPromises[d]
              /\ authStatusMap'[d] = authStatusMap[d]]_vars

\* the part of C36 that the code keeps: an attempt that has resolved has no
\* timer left
C36_ResolvedAttemptDisarmed ==
    \A d \in Devices :
        connCall[d].pc = "resolved" => connCall[d].attempt \notin authTimers[d]

\* the second attempt awaits its handshake, its future stored, while the timer
\* of the first attempt, which has been rejected, is still armed
C36_Witness ==
    \E d \in Active :
        /\ connCall[d].attempt = 2
        /\ connCall[d].pc = "authing"
        /\ authPromises[d] = 2
        /\ authTimers[d] = {1, 2}

----------------------------------------------------------------------------
(* C37: the 'disconnected' event of a connection *)

\* C37: for each established connection at most one 'disconnected' event is
\* emitted, whatever the order of disconnectDevice and the device-disconnected
\* callback
C37_DisconnectedOnce ==
    \A d \in Devices : connCall[d].events <= 1

\* the part of C37 that the code keeps: while disconnectDevice awaits
\* BleClient.disconnect, the device-disconnected callback emits nothing and
\* deletes nothing
C37_CallbackSkippedDuringDisconnect ==
    [][\A d \in Devices :
          (HandleDeviceDisconnected(d) /\ d \in disconnectingDevices) =>
              /\ emitted' = << >>
              /\ connections' = connections
              /\ pendingFrameResponses' = pendingFrameResponses]_vars

\* the one connection the caller ever established has been reported
\* disconnected twice
C37_Witness ==
    \E d \in Active :
        /\ connCall[d].attempt = 1
        /\ connCall[d].pc = "resolved"
        /\ connCall[d].events = 2
        /\ emitted = << [type |-> "disconnected", deviceId |-> d] >>

----------------------------------------------------------------------------
(* SpecLive: Spec with the teardown of a failed connection attempt making
   progress: the waits of _cleanupConnection end and the transport settles
   its disconnect call *)

SpecLive ==
    /\ Init
    /\ [][Next]_vars
    /\ WF_vars(\E d \in Active : CleanupWake(d))
    /\ WF_vars(\E d \in Active, ok \in BOOLEAN : CleanupDiscDone(d, ok))

====
